---- MODULE Spec2Model ----
(***************************************************************************)
(* Refund/return adjudication pipeline of mcp_customer_support.            *)
(*                                                                         *)
(* The subsystems are modelled over one set of variables:                  *)
(*   - the case worker (mcp_processor/app.py, mcp_processor/processor.py): *)
(*     POST /process, process_single_email, the verification agent loop    *)
(*     and insert_refund_case                        -> SpecWorker         *)
(*   - the mail ingress handler (gmail-event-processor/app.py,             *)
(*     gmail_processor.py, history_store.py)         -> SpecIngress,       *)
(*                                                      SpecIngressSeq     *)
(*   - the envelope store (gmail-event-processor/store_email.py)           *)
(*                                                   -> SpecStore          *)
(*   - the order lookup tools (db_verification/db_verification_server.py)  *)
(*                                                   -> SpecFind           *)
(*   - llm_find_orders (db_verification/llm_sql_runner.py): generated SQL, *)
(*     its validation and its execution              -> SpecSql            *)
(*   - one case from the verification loop on, with the loop's             *)
(*     conversation recorded                         -> SpecCase,          *)
(*                                                      SpecCaseLive       *)
(*   - the worker's LLM calls (semaphore and retry)  -> SpecSem, SpecRetry *)
(*   - llm_generate_and_execute with the caller's limit                    *)
(*                                                   -> SpecLimit          *)
(*   - POST /process-demo and its event stream (mcp_processor/app.py)      *)
(*                                                   -> SpecDemo,          *)
(*                                                      SpecDemoLive       *)
(*   - the Adjudicator's context and decision                              *)
(*     (policy_compiler_agents/adjudicator_agent.py) -> SpecAdj            *)
(*   - source citations (policy_compiler_agents/tools.py,                  *)
(*     source_retrieval.py)                          -> SpecCite           *)
(*   - the graph linker and the Cypher statements                          *)
(*     (policy_compiler_agents/extraction_agent.py)  -> SpecLink           *)
(*   - PolicyCompilerPipeline.run (policy_compiler_agents/agent.py)        *)
(*                                                   -> SpecPipe           *)
(*   - build_graph's connection test and the retry decorator               *)
(*     (policy_compiler_agents/builder_agent.py, neo4j_graph_engine/db.py) *)
(*                                                   -> SpecConn           *)
(*   - process_single_email and process_demo_scenario on the same          *)
(*     envelope (mcp_processor/processor.py)         -> SpecEquiv          *)
(*   - parse_documents and the citation round trip                         *)
(*     (policy_compiler_agents/ingestion.py, tools.py,                     *)
(*     source_retrieval.py)                          -> SpecDocs           *)
(*   - run_builder_agent and the builder stage of the pipeline             *)
(*     (policy_compiler_agents/builder_agent.py, agent.py)                 *)
(*                                                   -> SpecBuild          *)
(*   - the compilation jobs of one event loop                              *)
(*     (mcp_server/compiler_service.py)              -> SpecJobs,          *)
(*                                                      SpecJobsLive       *)
(***************************************************************************)
EXTENDS Integers, Sequences, FiniteSets, TLC

VARIABLES
    \* ---- case worker ----
    sessions,             \* MCPProcessor.sessions: the tool servers connected at startup
    pc,                   \* position inside process_task / process_single_email
    blob_path,            \* blob_path of the task being processed
    data,                 \* the envelope loaded from the blob, or NoEnvelope
    turn,                 \* loop index i of verify_request_with_db
    fuzzy_tools_used,     \* list kept by the verification loop
    verification_result,  \* what verify_request_with_db returned
    adjudication_result,  \* what Adjudicator.adjudicate returned, or None
    refund_cases,         \* the refund_cases table (set of rows, unique source_message_id)
    uuid,                 \* number of uuid4 values drawn so far
    response,             \* HTTP answer of the current POST /process (0: none yet)
    runs,                 \* number of POST /process requests received
    trace,                \* history of the current request (what was dispatched, raised, written)
    \* ---- mail ingress ----
    cursor,               \* Firestore gmail_state/history.last_history_id (0: no document)
    mailbox,              \* the provider's history records, oldest first
    hpc,                  \* per handler: position inside pubsub_handler / process_new_emails
    last_history_id,      \* per handler: local of process_new_emails
    max_history_id,       \* per handler: local of process_new_emails
    history,              \* per handler: the history delta returned by history().list
    results,              \* per handler: local list of process_new_emails
    hresponse,            \* per handler: HTTP answer of the push (0: none yet)
    pushes,               \* number of push notifications received
    \* ---- envelope store ----
    blobs,                \* bucket refunds_bucket: set of blob paths written
    tasks,                \* Cloud Tasks queue: sequence of {bucket, blob_path} bodies
    MCP_PROCESSOR_URL,    \* module-level configuration of store_email.py
    store_outcome,        \* how the last store_email_result call ended
    store_calls,          \* number of store_email_result calls
    \* ---- order lookup tools of db_verification ----
    orders,               \* the orders joined with their customer (set of rows)
    find_call,            \* the arguments of the last find_order_by_* call
    find_result,          \* the dict that call returned
    \* ---- llm_find_orders of db_verification ----
    sql_pc,               \* position inside llm_generate_and_execute
    obj,                  \* the JSON object the SQL-writing LLM answered
    q,                    \* the LLMQuery made of it (sql as words, params)
    db_log,               \* the statements the database received, in order
    tx,                   \* state of the connection's transaction
    sql_return,           \* how llm_generate_and_execute ended
    \* ---- the conversation of one verification loop ----
    messages,             \* verify_request_with_db.messages: its length and last entry
    llm_requests,         \* generate_with_retry calls made by the loop
    tool_dispatches,      \* db_session.call_tool calls made by the loop
    order_list_dispatched, \* whether one of them named get_customer_orders_with_items
    named_tool,           \* decision.tool_name of the last turn, or None
    \* ---- LLM calls of the case worker ----
    sem,                  \* MCPProcessor.sem: the permits that are free
    calls,                \* per coroutine: its LLM call (site, position, attempt, delay, error)
    gemini_client,        \* whether processor.py created its client (an API key is set)
    \* ---- arguments of generate_sql_with_gemini ----
    email_info,           \* the intent extracted from the email (its identifiers)
    max_limit_arg,        \* the max_limit argument
    \* ---- POST /process-demo ----
    demo_pc,              \* position inside process_demo / event_generator
    scenario_data,        \* what request.json() gives: a dict, another JSON value, or it raises
    scenario,             \* what process_demo_scenario still has to do: events to yield, then return or raise
    stream,               \* the server-sent events yielded so far
    demo_response,        \* HTTP status of the answer (0: none yet)
    \* ---- Adjudicator.adjudicate ----
    adj_pc,               \* position inside adjudicate
    verified_order,       \* the verified order (its dates and item condition)
    context,              \* what build_context returned
    rules,                \* what execute_policy_query returned
    decision,             \* what make_decision returned
    \* ---- citations of the extraction stage ----
    cite_pc,              \* position inside extract_policy_rules (citation part)
    markdown,             \* CitationManager.lines: the lines of combined_policy.md
    page_index,           \* CitationManager.index["pages"]
    entity,               \* one clean entity: its name, text_excerpt and source_citation
    node_statement,       \* the node statement generated for it, or None
    \* ---- linking and statement generation of the extraction stage ----
    link_pc,              \* position inside extract_policy_rules (linking part)
    schema_labels,        \* the node labels of the schema
    entities,             \* the entities: raw, then clean
    relationships,        \* the relationships: raw, then clean
    cypher_statements,    \* what generate_cypher_statements returned
    \* ---- PolicyCompilerPipeline.run ----
    pipe_pc,              \* position inside run
    max_revision_attempts, \* constructor argument
    clear_existing_graph, \* argument of run
    log_callback,         \* constructor argument: None or the caller's logger
    log,                  \* the messages passed to self._log
    stage_log,            \* the stage agents that started, in order
    pipeline_results,     \* results: pipeline_status and error
    \* ---- build_graph and the graph store connection ----
    conn_pc,              \* position inside build_graph / with_retry's wrapper
    retried_func,         \* the function the wrapper is running
    conn_attempt,         \* wrapper: attempt
    conn_delay,           \* wrapper: delay, in seconds
    driver,               \* the module's _driver: None or "open"
    sleeps,               \* the delays the wrapper slept, in order
    failures_left,        \* how many more connection attempts the store fails
    conn_test,            \* what test_connection returned
    clear_existing,       \* argument of build_graph
    build_result,         \* what build_graph returned, or how far it got
    \* ---- process_single_email and process_demo_scenario compared ----
    case_input,           \* the envelope and the responses both entry points are given
    single_write,         \* the refund_cases write of process_single_email
    demo_write,           \* the refund_cases write of process_demo_scenario
    \* ---- parse_documents and the citation round trip ----
    doc_pc,               \* position inside parse_documents and the citation round trip
    documents,            \* per PDF file, the pages the parser returned (each a list of lines)
    combined_lines,       \* combined_lines of parse_documents, later combined_policy.md
    line_kind,            \* history, per line: 0 header, -1 marker, -2 separator, k content of index entry k
    index_pages,          \* page_index["pages"], later combined_policy_index.json
    current_line,         \* current_line of parse_documents
    text_excerpt,         \* the text excerpt of the entity to cite
    context_lines,        \* argument of get_source_text
    cited,                \* what find_text_citation returned
    source_window,        \* what get_source_text extracted for it
    \* ---- run_builder_agent and stage 4 of the pipeline ----
    builder_pc,           \* position inside run_builder_agent and stage 4 of run
    build_input,          \* what the database does during the build
    build_log,            \* what build_graph returned
    builder_result,       \* what run_builder_agent returned
    stage4_status,        \* pipeline_status after stage 4 of run
    \* ---- compilation jobs ----
    job_pc,               \* per job, the position of its process_compilation task
    job_status,           \* per job, CompilerJob.status (none before the job exists)
    job_progress,         \* per job, CompilerJob.progress
    job_files,            \* per job, the number of PDF files uploaded with it
    job_parsed,           \* per job, the number of files parse_documents has parsed
    loop_owner,           \* the task the event loop is running (0: none)
    combined_md,          \* who wrote policy_docs/combined_policy.md and its index (0: nobody)
    results_artifact,     \* who wrote artifacts/knowledge_graph/pipeline_results.json
    overlapped            \* history, whether a job was created while another was unfinished

workerVars  == <<sessions, pc, blob_path, data, turn, fuzzy_tools_used, verification_result,
                 adjudication_result, refund_cases, uuid, response, runs, trace>>
ingressVars == <<cursor, mailbox, hpc, last_history_id, max_history_id, history,
                 results, hresponse, pushes>>
storeVars   == <<blobs, tasks, MCP_PROCESSOR_URL, store_outcome, store_calls>>
findVars    == <<orders, find_call, find_result>>
sqlVars     == <<sql_pc, obj, q, db_log, tx, sql_return>>
loopVars    == <<messages, llm_requests, tool_dispatches, order_list_dispatched, named_tool>>
llmVars     == <<sem, calls, gemini_client>>
auxVars     == <<findVars, sqlVars, loopVars, llmVars>>
limitVars   == <<email_info, max_limit_arg>>
demoVars    == <<demo_pc, scenario_data, scenario, stream, demo_response>>
adjVars     == <<adj_pc, verified_order, context, rules, decision>>
citeVars    == <<cite_pc, markdown, page_index, entity, node_statement>>
linkVars    == <<link_pc, schema_labels, entities, relationships, cypher_statements>>
pipeVars    == <<pipe_pc, max_revision_attempts, clear_existing_graph, log_callback, log,
                 stage_log, pipeline_results>>
connVars    == <<conn_pc, retried_func, conn_attempt, conn_delay, driver, sleeps, failures_left,
                 conn_test, clear_existing, build_result>>
equivVars   == <<case_input, single_write, demo_write>>
docVars     == <<doc_pc, documents, combined_lines, line_kind, index_pages, current_line, text_excerpt, context_lines, cited, source_window>>
buildVars   == <<builder_pc, build_input, build_log, builder_result, stage4_status>>
jobVars     == <<job_pc, job_status, job_progress, job_files, job_parsed, loop_owner, combined_md, results_artifact, overlapped>>
lateVars    == <<limitVars, demoVars, adjVars, citeVars, linkVars, pipeVars, connVars, equivVars, docVars, buildVars, jobVars>>
vars        == <<workerVars, ingressVars, storeVars, auxVars, lateVars>>

\* What the actions of one subsystem leave alone: the other subsystems' variables.
notWorker   == <<ingressVars, storeVars, auxVars, lateVars>>
notIngress  == <<workerVars, storeVars, auxVars, lateVars>>
notStore    == <<workerVars, ingressVars, auxVars, lateVars>>
notFind     == <<workerVars, ingressVars, storeVars, sqlVars, loopVars, llmVars, lateVars>>
notSql      == <<workerVars, ingressVars, storeVars, findVars, loopVars, llmVars, lateVars>>
notCase     == <<ingressVars, storeVars, findVars, sqlVars, llmVars, lateVars>>
notLlm      == <<workerVars, ingressVars, storeVars, findVars, sqlVars, loopVars, lateVars>>
notDemo     == <<workerVars, ingressVars, storeVars, auxVars, limitVars, adjVars, citeVars, linkVars, pipeVars, connVars, equivVars, docVars, buildVars, jobVars>>
notAdj      == <<workerVars, ingressVars, storeVars, auxVars, limitVars, demoVars, citeVars, linkVars, pipeVars, connVars, equivVars, docVars, buildVars, jobVars>>
notCite     == <<workerVars, ingressVars, storeVars, auxVars, limitVars, demoVars, adjVars, linkVars, pipeVars, connVars, equivVars, docVars, buildVars, jobVars>>
notLink     == <<workerVars, ingressVars, storeVars, auxVars, limitVars, demoVars, adjVars, citeVars, pipeVars, connVars, equivVars, docVars, buildVars, jobVars>>
notPipe     == <<workerVars, ingressVars, storeVars, auxVars, limitVars, demoVars, adjVars, citeVars, linkVars, connVars, equivVars, docVars, buildVars, jobVars>>
notConn     == <<workerVars, ingressVars, storeVars, auxVars, limitVars, demoVars, adjVars, citeVars, linkVars, pipeVars, equivVars, docVars, buildVars, jobVars>>
notEquiv    == <<workerVars, ingressVars, storeVars, auxVars, limitVars, demoVars, adjVars, citeVars, linkVars, pipeVars, connVars, docVars, buildVars, jobVars>>
notBuild    == <<workerVars, ingressVars, storeVars, auxVars, limitVars, demoVars, adjVars, citeVars, linkVars, pipeVars, connVars, equivVars, docVars, jobVars>>
notJobs     == <<workerVars, ingressVars, storeVars, auxVars, limitVars, demoVars, adjVars, citeVars, linkVars, pipeVars, connVars, equivVars, docVars, buildVars>>
notDocs     == <<workerVars, ingressVars, storeVars, auxVars, limitVars, demoVars, adjVars, citeVars, linkVars, pipeVars, connVars, equivVars, buildVars, jobVars>>

None == "None"

\* The tool-level specifications are not running.
FindIdle == orders = {} /\ find_call = None /\ find_result = None
SqlIdle  == /\ sql_pc = "idle" /\ obj = None /\ q = None
            /\ db_log = <<>> /\ tx = "none" /\ sql_return = None
LoopIdle == /\ messages = None /\ llm_requests = 0
            /\ tool_dispatches = 0 /\ order_list_dispatched = FALSE
            /\ named_tool = None
LlmIdle  == sem = 0 /\ calls = <<>> /\ gemini_client = TRUE
AuxIdle  == FindIdle /\ SqlIdle /\ LoopIdle /\ LlmIdle

\* The specifications of the policy compiler, the adjudicator and the
\* remaining entry points are not running.
LimitIdle == email_info = None /\ max_limit_arg = None
DemoIdle  == /\ demo_pc = "idle" /\ scenario_data = None /\ scenario = None
             /\ stream = <<>> /\ demo_response = 0
AdjIdle   == /\ adj_pc = "idle" /\ verified_order = None /\ context = None
             /\ rules = <<>> /\ decision = None
CiteIdle  == /\ cite_pc = "idle" /\ markdown = <<>> /\ page_index = <<>>
             /\ entity = None /\ node_statement = None
LinkIdle  == /\ link_pc = "idle" /\ schema_labels = {} /\ entities = <<>>
             /\ relationships = <<>> /\ cypher_statements = <<>>
PipeIdle  == /\ pipe_pc = "idle" /\ max_revision_attempts = 0 /\ clear_existing_graph = FALSE
             /\ log_callback = None /\ log = <<>> /\ stage_log = <<>>
             /\ pipeline_results = None
ConnIdle  == /\ conn_pc = "idle" /\ retried_func = None /\ conn_attempt = 0 /\ conn_delay = 0
             /\ driver = None /\ sleeps = <<>> /\ failures_left = 0 /\ conn_test = None
             /\ clear_existing = FALSE /\ build_result = None
EquivIdle == /\ case_input = None /\ single_write = None /\ demo_write = None
DocsIdle == /\ doc_pc = "idle" /\ documents = <<>> /\ combined_lines = <<>> /\ line_kind = <<>> /\ index_pages = <<>> /\ current_line = 0 /\ text_excerpt = None /\ context_lines = 0 /\ cited = <<>> /\ source_window = None
BuildIdle == /\ builder_pc = "idle" /\ build_input = None /\ build_log = None /\ builder_result = None /\ stage4_status = None
JobsIdle == /\ job_pc = <<>> /\ job_status = <<>> /\ job_progress = <<>> /\ job_files = <<>> /\ job_parsed = <<>> /\ loop_owner = 0 /\ combined_md = 0 /\ results_artifact = 0 /\ overlapped = FALSE
LateIdle  == LimitIdle /\ DemoIdle /\ AdjIdle /\ CiteIdle /\ LinkIdle /\ PipeIdle /\ ConnIdle /\ EquivIdle /\ DocsIdle /\ BuildIdle /\ JobsIdle

\* Every one of these specifications except the named one is not running.
OthersIdle(running) ==
    /\ IF running = "limit" THEN TRUE ELSE LimitIdle
    /\ IF running = "demo" THEN TRUE ELSE DemoIdle
    /\ IF running = "adjudicate" THEN TRUE ELSE AdjIdle
    /\ IF running = "citations" THEN TRUE ELSE CiteIdle
    /\ IF running = "linking" THEN TRUE ELSE LinkIdle
    /\ IF running = "pipeline" THEN TRUE ELSE PipeIdle
    /\ IF running = "connection" THEN TRUE ELSE ConnIdle
    /\ IF running = "equivalence" THEN TRUE ELSE EquivIdle
    /\ IF running = "documents" THEN TRUE ELSE DocsIdle
    /\ IF running = "builder" THEN TRUE ELSE BuildIdle
    /\ IF running = "jobs" THEN TRUE ELSE JobsIdle

(***************************************************************************)
(* Bounds of the model.                                                    *)
(***************************************************************************)
MaxRuns == 2

(***************************************************************************)
(* Case worker: data.                                                      *)
(***************************************************************************)
max_turns == 8

FuzzyTools == {"llm_find_orders", "select_order_id"}

\* The tools the db_verification server lists (tools_map).
ListedTools ==
    {"list_orders_by_customer_email", "find_order_by_invoice_number",
     "find_order_by_order_invoice_id", "list_order_items_by_order_invoice_id",
     "verify_from_email_matches_customer", "get_customer_orders_with_items",
     "select_order_id", "llm_find_orders"}

\* A name the LLM may answer that the server does not list.
UnlistedTools == {"lookup_order"}

AcceptedCategories == {"RETURN", "REPLACEMENT", "REFUND"}

Decisions == {"APPROVED", "DENIED", "MANUAL_REVIEW"}

\* The bucket's content: blob path -> envelope. b1 carries a message_id;
\* b2 is what process_new_emails builds (category, confidence, user_id,
\* email_body, attachments: no message_id, no received_at); b3 is unrelated mail.
Bucket ==
    [b \in {"b1", "b2", "b3"} |->
        CASE b = "b1" -> [category |-> "RETURN", message_id |-> "m1",
                          user_id |-> "alice", attachments |-> <<"pdf">>]
          [] b = "b2" -> [category |-> "REFUND", message_id |-> None,
                          user_id |-> "bob", attachments |-> <<"image">>]
          [] OTHER    -> [category |-> "NONE", message_id |-> None,
                          user_id |-> "carol", attachments |-> <<>>]]

NoEnvelope == [category |-> None, message_id |-> None, user_id |-> None,
               attachments |-> <<>>]

\* verified_data of a terminate decision: null, {}, a non-object JSON value,
\* or an order object.
VerifiedData == {None, "EMPTY", "STRING", "order1"}

Truthy(v) == v \notin {None, "EMPTY"}

IsDict(v) == v \in {"EMPTY", "order1"}

\* History of one request: whether a fuzzy tool call was sent to the tool server,
\* how the verification loop ended, whether the Adjudicator was invoked, whether
\* any step raised an exception, whether insert_refund_case committed a row.
NoTrace == [fuzzy_dispatched |-> FALSE, loop_end |-> None, adjudicator |-> FALSE,
            raised |-> FALSE, row |-> FALSE]

NoResult == [returned |-> FALSE, verified_data |-> None, fuzzy_tools_used |-> <<>>]

(***************************************************************************)
(* insert_refund_case.                                                     *)
(***************************************************************************)
\* processor.py:130. A generated id embeds a prefix of the fresh case_id.
SourceMessageId(email_data, case_id) ==
    IF email_data.message_id # None
    THEN [message_id |-> email_data.message_id, from_email |-> None, case_id |-> 0]
    ELSE [message_id |-> None, from_email |-> email_data.user_id, case_id |-> case_id]

\* processor.py:150-153.
VerificationStatus(verified_record) ==
    IF Truthy(verified_record) THEN "VERIFIED" ELSE "PENDING_REVIEW"

\* processor.py:119-173, 205-214: the row built from the arguments.
RefundCaseRow(email_data, verified_record, adjudication, case_id) ==
    [case_id             |-> case_id,
     source_message_id   |-> SourceMessageId(email_data, case_id),
     from_email          |-> email_data.user_id,
     classification      |-> email_data.category,
     order_id            |-> IF Truthy(verified_record) THEN verified_record ELSE None,
     verification_status |-> VerificationStatus(verified_record),
     verification_notes  |-> adjudication,
     metadata            |-> [adjudication |-> adjudication]]

\* processor.py:195-201: ON CONFLICT (source_message_id) DO UPDATE SET ...
OnConflictUpdate(old, new) ==
    [old EXCEPT !.order_id            = new.order_id,
                !.verification_status = new.verification_status,
                !.verification_notes  = new.verification_notes,
                !.metadata            = new.metadata]

\* processor.py:175-203: INSERT ... ON CONFLICT.
Upsert(table, row) ==
    IF \E r \in table : r.source_message_id = row.source_message_id
    THEN {IF r.source_message_id = row.source_message_id
          THEN OnConflictUpdate(r, row) ELSE r : r \in table}
    ELSE table \cup {row}

(***************************************************************************)
(* Case worker: POST /process (app.py) and process_single_email.           *)
(***************************************************************************)
\* What the task queue may post: a body naming a blob, or one without blob_path.
TaskPayloads == DOMAIN Bucket \cup {None}

\* MCPProcessor.sessions after the startup of app.py: connect_to_all_servers
\* connects doc_server, db_verification, defect_analyzer in this order and
\* stops at the first failure, which lifespan() only logs.
SessionStates ==
    {{}, {"doc_server"}, {"doc_server", "db_verification"},
     {"doc_server", "db_verification", "defect_analyzer"}}

verified_record ==
    IF verification_result.returned THEN verification_result.verified_data ELSE None

\* An exception leaves process_single_email: app.py answers 500.
RaiseToHandler ==
    /\ pc' = "done"
    /\ response' = 500
    /\ trace' = [trace EXCEPT !.raised = TRUE]

\* app.py:45-60: a task arrives; a body without bucket or blob_path is ignored.
ProcessTask(payload) ==
    /\ pc \in {"idle", "done"}
    /\ runs < MaxRuns
    /\ runs' = runs + 1
    /\ blob_path' = payload
    /\ data' = NoEnvelope
    /\ turn' = 0
    /\ fuzzy_tools_used' = <<>>
    /\ verification_result' = NoResult
    /\ adjudication_result' = None
    /\ trace' = NoTrace
    /\ IF payload = None
       THEN pc' = "done" /\ response' = 200
       ELSE pc' = "download" /\ response' = 0
    /\ UNCHANGED <<sessions, refund_cases, uuid>>
    /\ UNCHANGED notWorker

\* processor.py:652-680: download the blob, require doc_server, read the
\* envelope, return without a row when the category is not accepted.
LoadEnvelope ==
    /\ pc = "download"
    /\ \/ /\ RaiseToHandler                       \* download_blob / json.load raised
          /\ UNCHANGED data
       \/ /\ "doc_server" \notin sessions
          /\ RaiseToHandler
          /\ UNCHANGED data
       \/ /\ "doc_server" \in sessions
          /\ data' = Bucket[blob_path]
          /\ IF Bucket[blob_path].category \notin AcceptedCategories
             THEN pc' = "done" /\ response' = 200
             ELSE pc' = "attachments" /\ response' = response
          /\ UNCHANGED trace
    /\ UNCHANGED <<sessions, blob_path, turn, fuzzy_tools_used, verification_result,
                   adjudication_result, refund_cases, uuid, runs>>
    /\ UNCHANGED notWorker

\* Whether an attachment makes process_single_email call a tool server.
CallsTool(kind) ==
    \/ kind = "pdf"
    \/ kind = "image" /\ "defect_analyzer" \in sessions

\* processor.py:690-711: one tool call per PDF or image attachment; a failing
\* call is not caught.
ProcessAttachments ==
    /\ pc = "attachments"
    /\ \/ /\ \E i \in 1..Len(data.attachments) : CallsTool(data.attachments[i])
          /\ RaiseToHandler
       \/ /\ pc' = "extract"
          /\ UNCHANGED <<response, trace>>
    /\ UNCHANGED <<sessions, blob_path, data, turn, fuzzy_tools_used, verification_result,
                   adjudication_result, refund_cases, uuid, runs>>
    /\ UNCHANGED notWorker

\* processor.py:713-718: extract_order_details catches its own failures and a
\* text that is not JSON becomes an empty extracted_data.
Extract ==
    /\ pc = "extract"
    /\ pc' = "verify"
    /\ UNCHANGED <<sessions, blob_path, data, turn, fuzzy_tools_used, verification_result,
                   adjudication_result, refund_cases, uuid, response, runs, trace>>
    /\ UNCHANGED notWorker

(***************************************************************************)
(* verify_request_with_db: the verification agent loop.                    *)
(***************************************************************************)
\* The loop is left with a result of None (break, or the turns are used up).
LoopReturnsNone(how, raised) ==
    /\ verification_result' = NoResult
    /\ pc' = "gate"
    /\ trace' = [trace EXCEPT !.loop_end = how, !.raised = @ \/ raised]

\* processor.py:316-372: no db_verification session returns None; list_tools
\* is awaited outside the loop's try.
StartLoop ==
    /\ pc = "verify"
    /\ \/ /\ "db_verification" \notin sessions
          /\ LoopReturnsNone("no_session", FALSE)
          /\ UNCHANGED <<turn, fuzzy_tools_used, response>>
       \/ /\ "db_verification" \in sessions
          /\ RaiseToHandler                       \* list_tools raised
          /\ UNCHANGED <<turn, fuzzy_tools_used, verification_result>>
       \/ /\ "db_verification" \in sessions
          /\ turn' = 0
          /\ fuzzy_tools_used' = <<>>
          /\ pc' = "loop"
          /\ UNCHANGED <<verification_result, response, trace>>
    /\ UNCHANGED <<sessions, blob_path, data, adjudication_result, refund_cases, uuid, runs>>

VerifyStart == StartLoop /\ UNCHANGED notWorker

\* Mutant of TurnContinue: the turn is not counted.
TurnContinue_SameTurn ==
    UNCHANGED <<turn, pc, fuzzy_tools_used, verification_result, trace>>

\* processor.py:391-394, 398-403, 420-423: empty text, invalid JSON or a tool
\* the server does not list: a message is appended and the next turn starts.
TurnContinue ==
    /\ turn' = turn + 1
    /\ UNCHANGED <<pc, fuzzy_tools_used, verification_result, trace>>

\* processor.py:442-444: an exception inside the turn is caught and ends the loop.
TurnRaises ==
    /\ LoopReturnsNone("aborted", TRUE)
    /\ UNCHANGED <<turn, fuzzy_tools_used>>

\* processor.py:405-410.
TurnTerminate(verified_data) ==
    /\ verification_result' = [returned |-> TRUE, verified_data |-> verified_data,
                               fuzzy_tools_used |-> fuzzy_tools_used]
    /\ pc' = "gate"
    /\ trace' = [trace EXCEPT !.loop_end = "terminate"]
    /\ UNCHANGED <<turn, fuzzy_tools_used>>

\* Mutant of TrackFuzzy: select_order_id is not tracked.
TrackFuzzy_OnlyLlmFindOrders(used, tool_name) ==
    IF tool_name = "llm_find_orders" THEN Append(used, tool_name) ELSE used

\* processor.py:428-430.
TrackFuzzy(used, tool_name) ==
    IF tool_name \in FuzzyTools THEN Append(used, tool_name) ELSE used

\* processor.py:412-440: a decision naming a tool.
TurnTool(tool_name, call_ok) ==
    IF tool_name \notin ListedTools
    THEN call_ok /\ TurnContinue
    ELSE /\ fuzzy_tools_used' = TrackFuzzy(fuzzy_tools_used, tool_name)
         /\ IF call_ok
            THEN /\ turn' = turn + 1
                 /\ trace' = [trace EXCEPT !.fuzzy_dispatched =
                                  @ \/ tool_name \in FuzzyTools]
                 /\ UNCHANGED <<pc, verification_result>>
            ELSE /\ verification_result' = NoResult
                 /\ pc' = "gate"
                 /\ trace' = [trace EXCEPT !.fuzzy_dispatched =
                                  @ \/ tool_name \in FuzzyTools,
                                           !.loop_end = "aborted", !.raised = TRUE]
                 /\ UNCHANGED turn

\* What one turn can meet: generate_with_retry raises, or the LLM answers
\* with no text, with text that is no JSON, with a terminate action, with
\* neither action nor tool_name, or with a tool_name (a listed tool's call
\* returns or raises).
Answer(kind, verified_data, tool_name, call_ok) ==
    [kind |-> kind, verified_data |-> verified_data, tool_name |-> tool_name,
     call_ok |-> call_ok]

TurnAnswers ==
    {Answer(k, None, None, TRUE) : k \in {"raises", "empty", "invalid_json", "no_tool_name"}}
    \cup {Answer("terminate", v, None, TRUE) : v \in VerifiedData}
    \cup {Answer("tool", None, t, ok) : t \in ListedTools, ok \in BOOLEAN}
    \cup {Answer("tool", None, t, TRUE) : t \in UnlistedTools}

\* processor.py:373-444: one turn of the loop on one answer.
Turn(a) ==
    /\ pc = "loop"
    /\ turn < max_turns
    /\ CASE a.kind = "raises" -> TurnRaises
         [] a.kind \in {"empty", "invalid_json"} -> TurnContinue
         [] a.kind = "terminate" -> TurnTerminate(a.verified_data)
         [] a.kind = "no_tool_name" ->
                /\ LoopReturnsNone("no_tool_name", FALSE)
                /\ UNCHANGED <<turn, fuzzy_tools_used>>
         [] a.kind = "tool" -> TurnTool(a.tool_name, a.call_ok)
    /\ UNCHANGED <<sessions, blob_path, data, adjudication_result, refund_cases, uuid,
                   response, runs>>

\* processor.py:373-444: one turn of the loop, for every answer of the LLM.
VerifyTurn == \E a \in TurnAnswers : Turn(a) /\ UNCHANGED notWorker

\* processor.py:373, 446: the turns are used up.
LoopExhausted ==
    /\ pc = "loop"
    /\ turn = max_turns
    /\ LoopReturnsNone("exhausted", FALSE)
    /\ UNCHANGED <<sessions, blob_path, data, turn, fuzzy_tools_used, adjudication_result,
                   refund_cases, uuid, response, runs>>
    /\ UNCHANGED notWorker

(***************************************************************************)
(* process_single_email after the verification loop.                       *)
(***************************************************************************)
\* processor.py:149-156, 778-784 with 216-229: insert_refund_case commits the
\* upsert, or raises and the exception leaves the handler.
InsertRefundCase(adjudication) ==
    \/ /\ refund_cases' = Upsert(refund_cases,
                                 RefundCaseRow(data, verified_record, adjudication, uuid + 1))
       /\ uuid' = uuid + 1
       /\ pc' = "done"
       /\ response' = 200
       /\ trace' = [trace EXCEPT !.row = TRUE]
    \/ /\ RaiseToHandler
       /\ UNCHANGED <<refund_cases, uuid>>

\* processor.py:724-757, 775-776: which way the result of the loop leads.
\* Merging the intent fields into a verified_data that is no object raises.
Gate ==
    /\ pc = "gate"
    /\ IF Truthy(verified_record)
       THEN IF ~IsDict(verified_record)
            THEN RaiseToHandler
            ELSE /\ pc' = IF verification_result.fuzzy_tools_used # <<>>
                          THEN "insert_fuzzy" ELSE "adjudicate"
                 /\ UNCHANGED <<response, trace>>
       ELSE /\ pc' = "insert"
            /\ UNCHANGED <<response, trace>>
    /\ UNCHANGED <<sessions, blob_path, data, turn, fuzzy_tools_used, verification_result,
                   adjudication_result, refund_cases, uuid, runs>>
    /\ UNCHANGED notWorker

\* processor.py:742-756: a fuzzy tool was used: no adjudication, the row is
\* inserted with the verified order and the handler returns.
InsertFuzzy ==
    /\ pc = "insert_fuzzy"
    /\ InsertRefundCase(None)
    /\ UNCHANGED <<sessions, blob_path, data, turn, fuzzy_tools_used, verification_result,
                   adjudication_result, runs>>
    /\ UNCHANGED notWorker

\* processor.py:759-773: the Adjudicator runs; its failure is caught and leaves
\* adjudication_result None.
Adjudicate ==
    /\ pc = "adjudicate"
    /\ \/ \E d \in Decisions :
            /\ adjudication_result' = d
            /\ trace' = [trace EXCEPT !.adjudicator = TRUE]
       \/ /\ adjudication_result' = None
          /\ trace' = [trace EXCEPT !.adjudicator = TRUE, !.raised = TRUE]
    /\ pc' = "insert"
    /\ UNCHANGED <<sessions, blob_path, data, turn, fuzzy_tools_used, verification_result,
                   refund_cases, uuid, response, runs>>
    /\ UNCHANGED notWorker

\* processor.py:778-786.
InsertFinal ==
    /\ pc = "insert"
    /\ InsertRefundCase(adjudication_result)
    /\ UNCHANGED <<sessions, blob_path, data, turn, fuzzy_tools_used, verification_result,
                   adjudication_result, runs>>
    /\ UNCHANGED notWorker

WorkerInit ==
    /\ sessions \in SessionStates
    /\ pc = "idle"
    /\ blob_path = None
    /\ data = NoEnvelope
    /\ turn = 0
    /\ fuzzy_tools_used = <<>>
    /\ verification_result = NoResult
    /\ adjudication_result = None
    /\ refund_cases = {}
    /\ uuid = 0
    /\ response = 0
    /\ runs = 0
    /\ trace = NoTrace

WorkerNext ==
    \/ \E payload \in TaskPayloads : ProcessTask(payload)
    \/ LoadEnvelope
    \/ ProcessAttachments
    \/ Extract
    \/ VerifyStart
    \/ VerifyTurn
    \/ LoopExhausted
    \/ Gate
    \/ InsertFuzzy
    \/ Adjudicate
    \/ InsertFinal

(***************************************************************************)
(* Mail ingress: pubsub_handler (app.py), process_new_emails               *)
(* (gmail_processor.py) and the cursor store (history_store.py).           *)
(***************************************************************************)
MaxMail == 2

MaxPushes == 3

Handlers == {1, 2}

Categories == {"RETURN", "REPLACEMENT", "REFUND", "NONE"}

\* The provider numbers its history records upwards; record i of the mailbox
\* has id i + 1 and the profile's historyId is the newest id.
ProfileHistoryId == Len(mailbox) + 1

\* history().list(startHistoryId): the records after startHistoryId.
HistoryList(startHistoryId) ==
    SelectSeq(mailbox, LAMBDA h : h.id > startHistoryId)

\* history_store.py:9-15: no document reads as 0.
load_history_id == cursor

\* history_store.py:17-18: DOC.set overwrites the document.
save_history_id(history_id) == cursor' = history_id

\* A message is added to the mailbox (the provider's side). The text of a
\* message is stood for by the number of the message.
NewMail ==
    /\ Len(mailbox) < MaxMail
    /\ \E c \in Categories, u \in {None, "alice"} :
         mailbox' = Append(mailbox, [id |-> Len(mailbox) + 2, category |-> c,
                                     user_id |-> u, email_body |-> Len(mailbox) + 2])
    /\ UNCHANGED <<cursor, hpc, last_history_id, max_history_id, history, results,
                   hresponse, pushes>>
    /\ UNCHANGED notIngress

\* An exception leaves pubsub_handler: the push is answered 500.
HandlerRaises(h) ==
    /\ hpc' = [hpc EXCEPT ![h] = "done"]
    /\ hresponse' = [hresponse EXCEPT ![h] = 500]

\* app.py:89-102: a push arrives; a body without "message" is answered 400.
ReceivePush(h) ==
    /\ hpc[h] \in {"idle", "done"}
    /\ pushes < MaxPushes
    /\ pushes' = pushes + 1
    /\ last_history_id' = [last_history_id EXCEPT ![h] = 0]
    /\ max_history_id' = [max_history_id EXCEPT ![h] = 0]
    /\ history' = [history EXCEPT ![h] = <<>>]
    /\ results' = [results EXCEPT ![h] = <<>>]
    /\ \/ /\ hpc' = [hpc EXCEPT ![h] = "done"]
          /\ hresponse' = [hresponse EXCEPT ![h] = 400]
       \/ /\ hpc' = [hpc EXCEPT ![h] = "load"]
          /\ hresponse' = [hresponse EXCEPT ![h] = 0]
    /\ UNCHANGED <<cursor, mailbox>>
    /\ UNCHANGED notIngress

\* gmail_processor.py:288-303: build the client, read the cursor.
LoadHistoryId(h) ==
    /\ hpc[h] = "load"
    /\ \/ /\ HandlerRaises(h)                     \* token, client or Firestore read failed
          /\ UNCHANGED last_history_id
       \/ /\ last_history_id' = [last_history_id EXCEPT ![h] = load_history_id]
          /\ hpc' = [hpc EXCEPT ![h] = IF load_history_id = 0 THEN "profile" ELSE "list"]
          /\ UNCHANGED hresponse
    /\ UNCHANGED <<cursor, mailbox, max_history_id, history, results, pushes>>
    /\ UNCHANGED notIngress

\* gmail_processor.py:303-306: cold start, read the profile's historyId.
GetProfile(h) ==
    /\ hpc[h] = "profile"
    /\ \/ /\ HandlerRaises(h)
          /\ UNCHANGED max_history_id
       \/ /\ max_history_id' = [max_history_id EXCEPT ![h] = ProfileHistoryId]
          /\ hpc' = [hpc EXCEPT ![h] = "save_profile"]
          /\ UNCHANGED hresponse
    /\ UNCHANGED <<cursor, mailbox, last_history_id, history, results, pushes>>
    /\ UNCHANGED notIngress

\* gmail_processor.py:307-309 and app.py:107: store it and answer 200.
SaveProfileHistoryId(h) ==
    /\ hpc[h] = "save_profile"
    /\ \/ /\ HandlerRaises(h)
          /\ UNCHANGED cursor
       \/ /\ save_history_id(max_history_id[h])
          /\ hpc' = [hpc EXCEPT ![h] = "done"]
          /\ hresponse' = [hresponse EXCEPT ![h] = 200]
    /\ UNCHANGED <<mailbox, last_history_id, max_history_id, history, results, pushes>>
    /\ UNCHANGED notIngress

\* Mutant of ListHistory: the maximum starts at 0 instead of the stored cursor.
ListHistory_FromZero(h) ==
    /\ hpc[h] = "list"
    /\ \/ /\ HandlerRaises(h)
          /\ UNCHANGED <<history, max_history_id>>
       \/ /\ history' = [history EXCEPT ![h] = HistoryList(last_history_id[h])]
          /\ max_history_id' = [max_history_id EXCEPT ![h] = 0]
          /\ hpc' = [hpc EXCEPT ![h] = "loop"]
          /\ UNCHANGED hresponse
    /\ UNCHANGED <<cursor, mailbox, last_history_id, results, pushes>>
    /\ UNCHANGED notIngress

\* gmail_processor.py:311-318: fetch the history delta.
ListHistory(h) ==
    /\ hpc[h] = "list"
    /\ \/ /\ HandlerRaises(h)
          /\ UNCHANGED <<history, max_history_id>>
       \/ /\ history' = [history EXCEPT ![h] = HistoryList(last_history_id[h])]
          /\ max_history_id' = [max_history_id EXCEPT ![h] = last_history_id[h]]
          /\ hpc' = [hpc EXCEPT ![h] = "loop"]
          /\ UNCHANGED hresponse
    /\ UNCHANGED <<cursor, mailbox, last_history_id, results, pushes>>
    /\ UNCHANGED notIngress

Max(a, b) == IF a >= b THEN a ELSE b

\* Mutant of NextMaxHistoryId: the smaller id is kept.
NextMaxHistoryId_Min(max_id, h_id) == IF max_id <= h_id THEN max_id ELSE h_id

\* gmail_processor.py:321-323.
NextMaxHistoryId(max_id, h_id) == Max(max_id, h_id)

\* gmail_processor.py:354-362: the result built for a message.
ResultOf(rec) ==
    [category |-> rec.category, user_id |-> rec.user_id, email_body |-> rec.email_body]

\* gmail_processor.py:320-362: one history record (with one added message):
\* fetch the message, classify it, append the result (whatever its category).
ProcessRecord(h) ==
    /\ hpc[h] = "loop"
    /\ Len(results[h]) < Len(history[h])
    /\ LET rec == history[h][Len(results[h]) + 1] IN
       /\ max_history_id' = [max_history_id EXCEPT ![h] = NextMaxHistoryId(@, rec.id)]
       /\ \/ /\ HandlerRaises(h)                  \* messages().get or classify_email raised
             /\ UNCHANGED results
          \/ /\ results' = [results EXCEPT ![h] = Append(@, ResultOf(rec))]
             /\ UNCHANGED <<hpc, hresponse>>
    /\ UNCHANGED <<cursor, mailbox, last_history_id, history, pushes>>
    /\ UNCHANGED notIngress

\* gmail_processor.py:364-365 and app.py:105-107: after the loop the cursor is
\* stored and the push answered 200.
SaveHistoryId(h) ==
    /\ hpc[h] = "loop"
    /\ Len(results[h]) = Len(history[h])
    /\ \/ /\ HandlerRaises(h)
          /\ UNCHANGED cursor
       \/ /\ save_history_id(max_history_id[h])
          /\ hpc' = [hpc EXCEPT ![h] = "done"]
          /\ hresponse' = [hresponse EXCEPT ![h] = 200]
    /\ UNCHANGED <<mailbox, last_history_id, max_history_id, history, results, pushes>>
    /\ UNCHANGED notIngress

HandlerNext(h) ==
    \/ ReceivePush(h)
    \/ LoadHistoryId(h)
    \/ GetProfile(h)
    \/ SaveProfileHistoryId(h)
    \/ ListHistory(h)
    \/ ProcessRecord(h)
    \/ SaveHistoryId(h)

IngressInit ==
    /\ cursor = 0
    /\ mailbox = <<>>
    /\ hpc = [h \in Handlers |-> "idle"]
    /\ last_history_id = [h \in Handlers |-> 0]
    /\ max_history_id = [h \in Handlers |-> 0]
    /\ history = [h \in Handlers |-> <<>>]
    /\ results = [h \in Handlers |-> <<>>]
    /\ hresponse = [h \in Handlers |-> 0]
    /\ pushes = 0

(***************************************************************************)
(* Envelope store: store_email_result and _enqueue_mcp_task                *)
(* (gmail-event-processor/store_email.py).                                 *)
(***************************************************************************)
MaxStoreCalls == 3

BUCKET_NAME == "refunds_bucket"

\* Receive times at the resolution of the blob name (strftime to the second).
Times == {"T1", "T2"}

\* The results a caller may pass: user_id may be missing, received_at may be
\* missing (the current time is used).
StoreResults ==
    [user_id : {None, "alice", "bob"}, received_at : Times \cup {None},
     email_body : 2..3]

\* store_email.py:35-50 and 98: the timestamp of the blob name.
NormalizeTimestamp(received_at, now) ==
    IF received_at = None THEN now ELSE received_at

\* store_email.py:98-101.
BlobPath(user_id, ts) == [safe_user |-> user_id, ts |-> ts]

NoOutcome == [status |-> None, blob_path |-> BlobPath(None, None), enqueued |-> FALSE]

\* store_email.py:53-82: nothing is enqueued when MCP_PROCESSOR_URL is unset or
\* when create_task raises (the exception is printed, not raised).
EnqueueMcpTask(queue, bucket_name, path, create_ok) ==
    IF MCP_PROCESSOR_URL /\ create_ok
    THEN Append(queue, [bucket |-> bucket_name, blob_path |-> path])
    ELSE queue

\* store_email.py:85-119.
StoreEmailResult(result, now, upload_ok, create_ok) ==
    /\ store_calls < MaxStoreCalls
    /\ store_calls' = store_calls + 1
    /\ LET path == BlobPath(result.user_id, NormalizeTimestamp(result.received_at, now)) IN
       IF result.user_id = None \/ ~upload_ok
       THEN /\ store_outcome' = [status |-> "raised", blob_path |-> path, enqueued |-> FALSE]
            /\ UNCHANGED <<blobs, tasks>>
       ELSE /\ blobs' = [p \in DOMAIN blobs \cup {path} |->
                            IF p = path THEN result ELSE blobs[p]]
            /\ tasks' = EnqueueMcpTask(tasks, BUCKET_NAME, path, create_ok)
            /\ store_outcome' = [status |-> "returned", blob_path |-> path,
                                 enqueued |-> tasks' # tasks]
    /\ UNCHANGED MCP_PROCESSOR_URL
    /\ UNCHANGED notStore

StoreNext ==
    \E result \in StoreResults, now \in Times, upload_ok \in BOOLEAN, create_ok \in BOOLEAN :
        StoreEmailResult(result, now, upload_ok, create_ok)

StoreInit ==
    /\ blobs = <<>>
    /\ tasks = <<>>
    /\ MCP_PROCESSOR_URL \in BOOLEAN
    /\ store_outcome = NoOutcome
    /\ store_calls = 0

(***************************************************************************)
(* Specifications.                                                         *)
(***************************************************************************)
StoreIdle ==
    /\ blobs = <<>>
    /\ tasks = <<>>
    /\ MCP_PROCESSOR_URL = TRUE
    /\ store_outcome = NoOutcome
    /\ store_calls = 0

InitWorker == WorkerInit /\ IngressInit /\ StoreIdle /\ AuxIdle /\ LateIdle

NextWorker == WorkerNext

SpecWorker == InitWorker /\ [][NextWorker]_vars

WorkerIdle == WorkerInit /\ sessions = {}

InitIngress == IngressInit /\ WorkerIdle /\ StoreIdle /\ AuxIdle /\ LateIdle

\* Push notifications handled concurrently by the handlers.
NextIngress ==
    \/ NewMail
    \/ \E h \in Handlers : HandlerNext(h)

SpecIngress == InitIngress /\ [][NextIngress]_vars

\* Push notifications handled one after another.
NextIngressSeq ==
    \/ NewMail
    \/ HandlerNext(1)

SpecIngressSeq == InitIngress /\ [][NextIngressSeq]_vars

InitStore == StoreInit /\ WorkerIdle /\ IngressInit /\ AuxIdle /\ LateIdle

NextStore == StoreNext

SpecStore == InitStore /\ [][NextStore]_vars

(***************************************************************************)
(* Claims about the case worker (checked under SpecWorker).                *)
(***************************************************************************)
\* The row the request that just ended wrote (trace.row holds).
WrittenRow ==
    CHOOSE r \in refund_cases : r.source_message_id = SourceMessageId(data, uuid)

RequestWroteRow == pc = "done" /\ trace.row

\* C1: whenever the verification loop dispatched llm_find_orders or
\* select_order_id (fuzzy_tools_used is non-empty), the row that is written has
\* verification_status PENDING_REVIEW and carries no adjudication result.
C1_FuzzyCaseIsPendingReview ==
    (RequestWroteRow /\ fuzzy_tools_used # <<>>) =>
        /\ WrittenRow.verification_status = "PENDING_REVIEW"
        /\ WrittenRow.metadata.adjudication = None

\* C2: the Adjudicator is invoked only if the verification loop ended with a
\* terminate action carrying non-empty verified_data and no fuzzy tool
\* (llm_find_orders, select_order_id) was dispatched to the tool server.
C2_AdjudicatorOnlyAfterExactMatch ==
    trace.adjudicator =>
        /\ trace.loop_end = "terminate"
        /\ verification_result.returned
        /\ Truthy(verification_result.verified_data)
        /\ ~trace.fuzzy_dispatched

\* C2 witness: a request in which the Adjudicator ran and the row was written.
C2_Witness ==
    /\ RequestWroteRow
    /\ trace.adjudicator
    /\ adjudication_result \in Decisions
    /\ turn > 0

\* C3: for a given source_message_id the stored verification_status is never
\* changed from VERIFIED back to PENDING_REVIEW by a later upsert.
C3_StatusNeverDowngraded ==
    [][\A r \in refund_cases : \A r2 \in refund_cases' :
          (r.source_message_id = r2.source_message_id
           /\ r.verification_status = "VERIFIED")
          => r2.verification_status = "VERIFIED"]_vars

\* C4: processing the same case envelope again derives the same
\* source_message_id, so at most one refund_cases row exists per envelope
\* (the envelopes of the bucket have distinct senders).
C4_OneRowPerEnvelope ==
    \A b \in DOMAIN Bucket :
        Cardinality({r \in refund_cases : r.from_email = Bucket[b].user_id}) <= 1

\* C5: POST /process answers 2xx only when a refund_cases row was written, and
\* answers 5xx whenever a step of the pipeline raised an exception.
C5_SuccessOnlyWithRow ==
    (pc = "done" /\ blob_path # None) =>
        /\ response = 200 => trace.row
        /\ trace.raised => response = 500

\* C33: a failure while parsing a PDF attachment or analysing an image
\* attachment never fails the task: the step after the attachments is the
\* extraction, and the request is not answered 500 by it.
C33_AttachmentFailureIsSkipped ==
    [][pc = "attachments" => (pc' = "extract" /\ response' # 500)]_vars

(***************************************************************************)
(* Claims about the mail ingress (SpecIngress: concurrent handlers;        *)
(* SpecIngressSeq: one notification after another).                        *)
(***************************************************************************)
\* The handler answered 200 after walking a history delta (not a cold start).
DeltaHandled(h) ==
    hpc[h] = "done" /\ hresponse[h] = 200 /\ last_history_id[h] # 0

Eligible(rec) == rec.category \in AcceptedCategories

\* The envelopes in the bucket, and the tasks in the queue, of a message.
EnvelopesOf(rec) ==
    {p \in DOMAIN blobs :
        blobs[p].user_id = rec.user_id /\ blobs[p].email_body = rec.email_body}

TasksOf(rec) ==
    {i \in 1..Len(tasks) : tasks[i].blob_path \in EnvelopesOf(rec)}

\* This step is handler h storing the cursor.
WritesCursor(h) ==
    /\ hpc[h] \in {"loop", "save_profile"}
    /\ hpc'[h] = "done"
    /\ hresponse'[h] = 200

\* The largest id of a history delta, or base when none is larger.
RECURSIVE MaxHistoryIdOf(_, _)
MaxHistoryIdOf(base, delta) ==
    IF delta = <<>> THEN base
    ELSE MaxHistoryIdOf(Max(base, Head(delta).id), Tail(delta))

\* C6: the cursor is written only after the envelope write and the task
\* enqueue of every eligible message of the notification succeeded. (The
\* handler has no envelope write or enqueue that could fail; any exception in
\* it leaves the cursor as it was and answers 500, see HandlerRaises.)
C6_CursorAfterEnvelopesAndTasks ==
    \A h \in Handlers :
        DeltaHandled(h) =>
            \A i \in 1..Len(history[h]) :
                Eligible(history[h][i]) =>
                    /\ EnvelopesOf(history[h][i]) # {}
                    /\ TasksOf(history[h][i]) # {}

\* C7 as stated: every cursor write is >= the value stored before it, and the
\* value written is the maximum history id seen in the notification's delta.
C7_WriteIsMaxOfDelta ==
    [][\A h \in Handlers : WritesCursor(h) =>
          /\ cursor' >= cursor
          /\ history[h] # <<>>
          /\ cursor' = MaxHistoryIdOf(0, history[h])]_vars

\* C7 amended: every cursor write is >= the value stored before it; after a
\* delta the value written is the maximum of the stored cursor and the delta's
\* history ids (the stored cursor itself when the delta is empty); at cold
\* start it is a history id the provider reported as current.
C7_CursorMonotoneSequential ==
    [][\A h \in Handlers : WritesCursor(h) =>
          /\ cursor' >= cursor
          /\ hpc[h] = "loop" => cursor' = MaxHistoryIdOf(cursor, history[h])
          /\ hpc[h] = "save_profile" =>
                 (cursor = 0 /\ cursor' >= 1 /\ cursor' <= ProfileHistoryId)]_vars

\* C7 witness: a notification with a non-empty delta advanced the cursor.
C7_Witness ==
    /\ DeltaHandled(1)
    /\ history[1] # <<>>
    /\ cursor = MaxHistoryIdOf(0, history[1])
    /\ cursor > last_history_id[1]

\* C8: with notifications handled concurrently the stored cursor is never
\* lowered, and once a handler has stored its value the cursor is at least
\* that value (the write stores max(existing, computed)).
C8_ConcurrentWritesKeepMax ==
    [][/\ cursor' >= cursor
       /\ \A h \in Handlers :
            (hpc'[h] = "done" /\ hresponse'[h] = 200) => cursor' >= max_history_id'[h]]_vars

\* C10: when the handler returns, every message of the delta classified RETURN,
\* REPLACEMENT or REFUND has exactly one envelope in the bucket and exactly one
\* task in the queue, and a message classified NONE has neither.
C10_OneEnvelopeAndTaskPerEligibleMessage ==
    \A h \in Handlers :
        DeltaHandled(h) =>
            \A i \in 1..Len(history[h]) :
                LET n == IF Eligible(history[h][i]) THEN 1 ELSE 0 IN
                /\ Cardinality(EnvelopesOf(history[h][i])) = n
                /\ Cardinality(TasksOf(history[h][i])) = n

\* This step is handler h reading the provider's current history id.
ReadsProfile(h) ==
    hpc[h] = "profile" /\ hpc'[h] = "save_profile"

\* This step is handler h answering 200 at cold start.
ColdStartEnds(h) ==
    hpc[h] = "save_profile" /\ hpc'[h] = "done" /\ hresponse'[h] = 200

\* This step is handler h fetching the delta while the provider's current
\* history id is the stored cursor.
ListsAtCursor(h) ==
    hpc[h] = "list" /\ hpc'[h] = "loop" /\ last_history_id[h] = ProfileHistoryId

\* This step is handler h answering 200 after an empty delta.
EmptyDeltaEnds(h) ==
    hpc[h] = "loop" /\ hpc'[h] = "done" /\ hresponse'[h] = 200 /\ history[h] = <<>>

\* C29: with no cursor stored, a notification handled without an exception
\* stores the history id the provider reported as current as cursor, reads no
\* message and adds no envelope and no task; a following notification at the same history
\* id gets an empty delta, reads no message, adds no envelope and no task and
\* leaves the cursor value as it was (notifications handled one at a time).
C29_ColdStartThenNoOp ==
    [][\A h \in Handlers :
          /\ ReadsProfile(h) => max_history_id'[h] = ProfileHistoryId
          /\ ColdStartEnds(h) =>
                /\ cursor = 0
                /\ cursor' = max_history_id[h]
                /\ history[h] = <<>> /\ results[h] = <<>>
                /\ blobs' = blobs /\ tasks' = tasks
          /\ ListsAtCursor(h) => history'[h] = <<>>
          /\ EmptyDeltaEnds(h) =>
                /\ cursor' = cursor
                /\ results[h] = <<>>
                /\ blobs' = blobs /\ tasks' = tasks]_vars

\* C29 witness: after a cold start a second notification was answered 200 at
\* the same history id, with an empty delta and the cursor as the cold start
\* stored it.
C29_Witness ==
    /\ pushes >= 2
    /\ DeltaHandled(1)
    /\ history[1] = <<>>
    /\ results[1] = <<>>
    /\ cursor = last_history_id[1]
    /\ cursor = ProfileHistoryId
    /\ blobs = <<>> /\ tasks = <<>>

\* Handler h stopped inside the delta: a record's message could not be
\* fetched (or classified) and the records from it on were not visited.
StoppedInsideDelta(h) ==
    hpc[h] = "done" /\ history[h] # <<>> /\ Len(results[h]) < Len(history[h])

\* C32: a message of the delta whose fetch fails for good (404, the message
\* was deleted) is skipped: the handler does not stop inside the delta, it
\* answers 200 and the cursor is advanced to the delta's largest history id.
C32_FailedFetchDoesNotBlockCursor ==
    \A h \in Handlers :
        StoppedInsideDelta(h) =>
            /\ hresponse[h] = 200
            /\ cursor >= MaxHistoryIdOf(0, history[h])

(***************************************************************************)
(* Claims about the envelope store (SpecStore).                            *)
(***************************************************************************)
\* C9: store_email_result never returns normally for a case whose envelope
\* was not written or whose task was not enqueued.
C9_ReturnImpliesEnqueued ==
    store_outcome.status = "returned" =>
        /\ store_outcome.blob_path \in DOMAIN blobs
        /\ store_outcome.enqueued
        /\ \E i \in 1..Len(tasks) : tasks[i].blob_path = store_outcome.blob_path

\* C34: two distinct inbound messages are never stored under the same blob
\* path: a stored envelope is never replaced by the envelope of another
\* message (the text of a message is what tells messages apart here).
C34_NoEnvelopeOverwritten ==
    [][\A p \in DOMAIN blobs :
          p \in DOMAIN blobs' /\ blobs'[p].email_body = blobs[p].email_body]_vars

(***************************************************************************)
(* db_verification: find_order_by_invoice_number and                       *)
(* find_order_by_order_invoice_id.  Strings are sequences of characters,   *)
(* so that str.strip() and str.lower() are computed.                       *)
(***************************************************************************)
MaxStr == 3
Chars  == {" ", "a", "A", "b"}
Str    == UNION {[1..n -> Chars] : n \in 0..MaxStr}

RECURSIVE lstrip(_)
lstrip(s) == IF s # <<>> /\ Head(s) = " " THEN lstrip(Tail(s)) ELSE s

RECURSIVE rstrip(_)
rstrip(s) == IF s # <<>> /\ s[Len(s)] = " " THEN rstrip(SubSeq(s, 1, Len(s) - 1)) ELSE s

\* str.strip(): leading and trailing whitespace removed.
strip(s) == rstrip(lstrip(s))

\* str.lower().
lower(s) == [i \in 1..Len(s) |-> IF s[i] = "A" THEN "a" ELSE s[i]]

\* The stored order: one order of one customer; the customer's e-mail varies.
DbEmails == {<<"a">>, <<"A", "b">>, <<"b", " ">>, <<"a", "b">>}
OrderRow(email) ==
    [order_invoice_id |-> <<"a">>, invoice_number |-> <<"b">>, customer_email |-> email]

\* Values of the id argument of a call.
IdArgs == {s \in Str : Len(s) <= 2}

\* db_verification_server.py:68-127: the rows WHERE field_name = value; the
\* empty set stands for None, a one-row set for the order's dict.
fetch_full_order_details(table, field_name, value) ==
    {o \in table : o[field_name] = value}

\* db_verification_server.py:193-215 (and 228-255 with the other column).
FindOrderBy(field_name, id, verification_email, db_ok) ==
    IF id = <<>> \/ strip(id) = <<>>
    THEN [key |-> id, found |-> FALSE, data |-> {}, error |-> "is required"]
    ELSE LET inv  == strip(id)
             rows == fetch_full_order_details(orders, field_name, inv)
         IN  IF ~db_ok
             THEN [key |-> inv, found |-> FALSE, data |-> {}, error |-> "exception"]
             ELSE IF /\ rows # {}
                     /\ verification_email # <<>>
                     /\ \E o \in rows : lower(strip(o.customer_email))
                                            # lower(strip(verification_email))
             THEN [key |-> inv, found |-> FALSE, data |-> {},
                   error |-> "Email verification mismatch"]
             ELSE [key |-> inv, found |-> rows # {}, data |-> rows, error |-> None]

find_order_by_invoice_number(invoice_number, verification_email, db_ok) ==
    FindOrderBy("invoice_number", invoice_number, verification_email, db_ok)

find_order_by_order_invoice_id(order_invoice_id, verification_email, db_ok) ==
    FindOrderBy("order_invoice_id", order_invoice_id, verification_email, db_ok)

\* No dict returned yet (every returned dict has an error or a non-empty key).
NoFindResult == [key |-> <<>>, found |-> FALSE, data |-> {}, error |-> None]

\* The tool calls the LLM can send: either tool, every argument, and a
\* database that answers or raises.
FindCalls ==
    [tool : {"find_order_by_invoice_number", "find_order_by_order_invoice_id"},
     id : IdArgs, verification_email : Str, db_ok : BOOLEAN]

\* The MCP server runs find_order_by_invoice_number on the call's arguments.
CallFindOrderByInvoiceNumber ==
    /\ find_call.tool = "find_order_by_invoice_number"
    /\ find_result = NoFindResult
    /\ find_result' = find_order_by_invoice_number(find_call.id,
                           find_call.verification_email, find_call.db_ok)
    /\ UNCHANGED <<orders, find_call>>
    /\ UNCHANGED notFind

\* The MCP server runs find_order_by_order_invoice_id on the call's arguments.
CallFindOrderByOrderInvoiceId ==
    /\ find_call.tool = "find_order_by_order_invoice_id"
    /\ find_result = NoFindResult
    /\ find_result' = find_order_by_order_invoice_id(find_call.id,
                           find_call.verification_email, find_call.db_ok)
    /\ UNCHANGED <<orders, find_call>>
    /\ UNCHANGED notFind

FindInit ==
    /\ orders \in {{OrderRow(e)} : e \in DbEmails}
    /\ find_call \in FindCalls
    /\ find_result = NoFindResult

InitFind == FindInit /\ WorkerIdle /\ IngressInit /\ StoreIdle /\ SqlIdle /\ LoopIdle /\ LlmIdle /\ LateIdle

NextFind ==
    \/ CallFindOrderByInvoiceNumber
    \/ CallFindOrderByOrderInvoiceId

SpecFind == InitFind /\ [][NextFind]_vars

\* The column a tool searches.
ColumnOf(tool) == IF tool = "find_order_by_invoice_number" THEN "invoice_number"
                  ELSE "order_invoice_id"

\* The order a call asks for: the stored rows whose column equals the
\* stripped id.
AskedOrders == {o \in orders : o[ColumnOf(find_call.tool)] = strip(find_call.id)}

\* The call has returned.
FindReturned == find_result # NoFindResult

\* Equality of two e-mail addresses ignoring case and surrounding whitespace.
SameEmail(a, b) == lower(strip(a)) = lower(strip(b))

\* C11: a lookup answers found = true with the order's data only when the
\* order's customer e-mail equals verification_email (ignoring case and
\* surrounding whitespace); for every other verification_email, the empty one
\* included, it answers found = false, data = null and an error.
C11_FoundOnlyForMatchingEmail ==
    FindReturned =>
    /\ find_result.found =>
          /\ find_result.data # {}
          /\ \A o \in find_result.data : SameEmail(o.customer_email, find_call.verification_email)
    /\ \A o \in AskedOrders :
          ~SameEmail(o.customer_email, find_call.verification_email) =>
              /\ find_result.found = FALSE
              /\ find_result.data = {}
              /\ find_result.error # None

(***************************************************************************)
(* db_verification/llm_sql_runner.py: the SQL written by the LLM.          *)
(*                                                                         *)
(* A SQL text is the sequence of its whitespace-separated words (what      *)
(* _normalize_sql keeps); a word is a sequence of lexemes; a lexeme is a   *)
(* lower-case text and whether it was written in upper case.               *)
(***************************************************************************)
Lex(text, upper) == [text |-> text, upper |-> upper]

\* llm_sql_runner.py:119.
ALLOWED_TABLES == {"customers", "orders", "order_items", "refund_cases"}

\* llm_sql_runner.py:148.
DEFAULT_MAX_LIMIT == 200

\* llm_sql_runner.py:121-146.  An entry without spaces matches inside any
\* word; an entry ending in a space matches the end of a word; an entry
\* between two spaces matches a whole word.
FORBIDDEN_SQL_SUBSTRINGS ==
    {[text |-> t, match |-> "inside"] :
        t \in {";", "--", "/*", "*/", "pg_catalog", "information_schema"}}
    \cup
    {[text |-> t, match |-> "word_end"] :
        t \in {"insert", "update", "delete", "drop", "alter", "create", "grant",
               "revoke", "truncate", "copy", "call", "do", "execute"}}
    \cup
    {[text |-> t, match |-> "whole_word"] : t \in {"with", "union"}}

\* str.lower() of a SQL text.
sql_lower(words) ==
    [i \in DOMAIN words |-> [j \in DOMAIN words[i] |-> Lex(words[i][j].text, FALSE)]]

\* `bad in padded`, padded being the lower-case text between two spaces.
Contains(words, bad) ==
    \E i \in DOMAIN words :
        CASE bad.match = "inside"     -> \E j \in DOMAIN words[i] : words[i][j].text = bad.text
          [] bad.match = "word_end"   -> words[i][Len(words[i])].text = bad.text
          [] bad.match = "whole_word" -> words[i] = <<Lex(bad.text, FALSE)>>

Punctuation == {",", "(", ")"}

RECURSIVE lstrip_punct(_)
lstrip_punct(w) ==
    IF w # <<>> /\ Head(w).text \in Punctuation THEN lstrip_punct(Tail(w)) ELSE w

RECURSIVE rstrip_punct(_)
rstrip_punct(w) ==
    IF w # <<>> /\ w[Len(w)].text \in Punctuation
    THEN rstrip_punct(SubSeq(w, 1, Len(w) - 1)) ELSE w

\* t.strip(",()") of one word.
strip_punct(w) == rstrip_punct(lstrip_punct(w))

\* llm_sql_runner.py:236-237: the allow-listed names among the tokens.
Referenced(sql_lc) ==
    {t \in ALLOWED_TABLES : \E i \in DOMAIN sql_lc : strip_punct(sql_lc[i]) = <<Lex(t, FALSE)>>}

RECURSIVE CountIn(_, _)
CountIn(w, lexeme) ==
    IF w = <<>> THEN 0
    ELSE (IF Head(w) = lexeme THEN 1 ELSE 0) + CountIn(Tail(w), lexeme)

RECURSIVE Count(_, _)
\* sql_clean.count("%s").
Count(words, lexeme) ==
    IF words = <<>> THEN 0 ELSE CountIn(Head(words), lexeme) + Count(Tail(words), lexeme)

\* llm_sql_runner.py:206-253: "ok", or the SQLValidationError raised.
validate_sql_readonly(sql, params, max_limit) ==
    LET sql_lc == sql_lower(sql)
        n      == Len(sql_lc)
    IN  IF sql = <<>> THEN "Empty SQL"
        ELSE IF sql_lc[1] # <<Lex("select", FALSE)>> \/ n = 1
        THEN "Only SELECT queries are allowed"
        ELSE IF ~(n >= 3 /\ sql_lc[n - 1] = <<Lex("limit", FALSE)>>
                         /\ sql_lc[n] = <<Lex("%s", FALSE)>>)
        THEN "SQL must end with: LIMIT %s"
        ELSE IF \E bad \in FORBIDDEN_SQL_SUBSTRINGS : Contains(sql_lc, bad)
        THEN "Forbidden SQL content detected"
        ELSE IF Referenced(sql_lc) = {}
        THEN "Query must explicitly reference allowed tables"
        ELSE IF Count(sql, Lex("%s", FALSE)) # Len(params)
        THEN "Placeholder count != params length"
        ELSE IF params = <<>> THEN "Params must include final LIMIT"
        ELSE IF params[Len(params)].type # "int" THEN "Final LIMIT param must be an int"
        ELSE IF params[Len(params)].value > max_limit THEN "LIMIT param too high"
        ELSE "ok"

(***************************************************************************)
(* The queries the SQL-writing LLM can answer with.                        *)
(***************************************************************************)
MaxTables == 2

\* A table reference: an allow-listed table, another table of the database,
\* or a schema-qualified one.
TableRefs ==
    [schema : {None}, name : {"orders", "order_items", "users"}]
    \cup {[schema |-> "public", name |-> "orders"],
          [schema |-> "pg_catalog", name |-> "pg_user"]}

\* A parameter value: its Python type and, for an int, its value.
ParamValues == {[type |-> "int", value |-> 201], [type |-> "str", value |-> 0]}

\* The shapes of statement the answer can have: which verb, written in which
\* case, over which tables, how the tables are combined, with or without a
\* WHERE clause, and how the text ends.
Queries ==
    [verb   : {"select", "delete"},
     upper  : BOOLEAN,
     tables : UNION {[1..n -> TableRefs] : n \in 1..MaxTables},
     glue   : {"comma", "join", "union"},
     where  : BOOLEAN,
     ending : {"limit", "none", "semicolon"}]

\* The word naming a table.
TableWord(ref, upper) ==
    IF ref.schema = None THEN <<Lex(ref.name, upper)>>
    ELSE <<Lex(ref.schema, FALSE), Lex(".", FALSE), Lex(ref.name, upper)>>

Word(text, upper) == <<Lex(text, upper)>>

RECURSIVE FromList(_, _, _)
\* The FROM clause over the tables.
FromList(tables, glue, upper) ==
    IF Len(tables) = 1 THEN <<TableWord(tables[1], upper)>>
    ELSE CASE glue = "comma" ->
                <<TableWord(tables[1], upper) \o Word(",", FALSE)>>
                \o FromList(Tail(tables), glue, upper)
           [] glue = "join" ->
                <<TableWord(tables[1], upper), Word("natural", upper), Word("join", upper)>>
                \o FromList(Tail(tables), glue, upper)
           [] glue = "union" ->
                <<TableWord(tables[1], upper), Word("union", upper), Word("select", upper),
                  Word("*", FALSE), Word("from", upper)>>
                \o FromList(Tail(tables), glue, upper)

\* The SQL text of a query, as words.
SqlText(query) ==
    <<Word(query.verb, query.upper), Word("*", FALSE), Word("from", query.upper)>>
    \o FromList(query.tables, query.glue, query.upper)
    \o (IF query.where
        THEN <<Word("where", query.upper), Word("x", FALSE), Word("=", FALSE),
               Word("%s", FALSE)>>
        ELSE <<>>)
    \o (CASE query.ending = "limit" -> <<Word("limit", query.upper), Word("%s", FALSE)>>
          [] query.ending = "semicolon" ->
                <<Word("limit", query.upper), <<Lex("%s", FALSE), Lex(";", FALSE)>>>>
          [] query.ending = "none" -> <<>>)

\* The tables a query reads, by the statement's structure.
TablesOf(query) == {query.tables[i] : i \in DOMAIN query.tables}

(***************************************************************************)
(* llm_generate_and_execute: generate, validate, execute.                  *)
(***************************************************************************)
MaxParams == 2
ParamLists == UNION {[1..n -> ParamValues] : n \in 0..MaxParams}

\* What the LLM answers: a JSON object with sql and params, or no usable text.
LLMAnswers ==
    [usable : {TRUE}, query : Queries, params : ParamLists]
    \cup {[usable |-> FALSE, query |-> qq, params |-> <<>>] :
             qq \in {x \in Queries : x.verb = "select" /\ x.tables = <<[schema |-> None, name |-> "orders"]>>
                                      /\ x.glue = "comma" /\ ~x.upper /\ ~x.where
                                      /\ x.ending = "limit"}}

NoQuery == [sql |-> <<>>, params |-> <<>>]

\* llm_sql_runner.py:183-191 for max_limit = DEFAULT_MAX_LIMIT: 1 with a
\* strong identifier in email_info, min(5, max_limit) without.
DesiredLimits == {1, IF 5 <= DEFAULT_MAX_LIMIT THEN 5 ELSE DEFAULT_MAX_LIMIT}

\* Mutant of EnforceLimit: the generator's own final parameter is kept.
EnforceLimit_Keep(params, desired) ==
    IF params = <<>> THEN <<[type |-> "int", value |-> desired]>> ELSE params

\* llm_sql_runner.py:418-425: the final parameter is replaced by the desired limit.
EnforceLimit(params, desired) ==
    IF params = <<>> THEN <<[type |-> "int", value |-> desired]>>
    ELSE SubSeq(params, 1, Len(params) - 1) \o <<[type |-> "int", value |-> desired]>>

\* llm_sql_runner.py:379-427, with the value _desired_limit returned.
GenerateSql(desired) ==
    /\ sql_pc = "generate"
    /\ IF obj.usable
       THEN /\ q' = [sql |-> SqlText(obj.query), params |-> EnforceLimit(obj.params, desired)]
            /\ sql_pc' = "validate"
            /\ UNCHANGED sql_return
       ELSE /\ sql_return' = "RuntimeError"
            /\ sql_pc' = "done"
            /\ UNCHANGED q
    /\ UNCHANGED <<obj, db_log, tx>>
    /\ UNCHANGED notSql

\* llm_sql_runner.py:379-427 for an email_info the model does not look into.
GenerateSqlWithGemini == \E desired \in DesiredLimits : GenerateSql(desired)

\* Mutant of RaisesValidationError: the validator's verdict is ignored.
RaisesValidationError_Never(verdict) == FALSE

\* llm_sql_runner.py:482: validate_sql_readonly returns None or raises.
RaisesValidationError(verdict) == verdict # "ok"

\* llm_sql_runner.py:482.
Validate(limit) ==
    /\ sql_pc = "validate"
    /\ IF RaisesValidationError(validate_sql_readonly(q.sql, q.params, limit))
       THEN /\ sql_return' = "SQLValidationError"
            /\ sql_pc' = "done"
       ELSE /\ sql_pc' = "connect"
            /\ UNCHANGED sql_return
    /\ UNCHANGED <<obj, q, db_log, tx>>
    /\ UNCHANGED notSql

\* llm_sql_runner.py:482 as llm_find_orders calls it: max_limit has its default.
ValidateSql == Validate(DEFAULT_MAX_LIMIT)

\* llm_sql_runner.py:443 with db.py:33-42: the connection is opened, or
\* connecting raises.
Connect ==
    /\ sql_pc = "connect"
    /\ \/ sql_pc' = "begin" /\ UNCHANGED sql_return
       \/ sql_pc' = "done" /\ sql_return' = "db error"
    /\ UNCHANGED <<obj, q, db_log, tx>>
    /\ UNCHANGED notSql

\* What a statement that succeeded does to the transaction.
TxAfter(stmt) ==
    CASE stmt = "BEGIN" -> "open"
      [] stmt = "COMMIT" -> "committed"
      [] stmt = "ROLLBACK" -> "rolled_back"
      [] OTHER -> tx

\* cur.execute(stmt) inside the try of execute_readonly_query: the statement
\* runs and the function goes on, or it raises and the except clause runs.
CursorExecute(at, stmt, next) ==
    /\ sql_pc = at
    /\ \/ /\ db_log' = Append(db_log, [stmt |-> stmt, ok |-> TRUE])
          /\ tx' = TxAfter(stmt)
          /\ sql_pc' = next
       \/ /\ db_log' = Append(db_log, [stmt |-> stmt, ok |-> FALSE])
          /\ tx' = IF tx = "open" THEN "aborted" ELSE tx
          /\ sql_pc' = "rollback"
    /\ UNCHANGED <<obj, q, sql_return>>
    /\ UNCHANGED notSql

\* llm_sql_runner.py:447.
Begin == CursorExecute("begin", "BEGIN", "read_only")

\* llm_sql_runner.py:448.
SetReadOnly ==
    CursorExecute("read_only", "SET LOCAL transaction_read_only = on", "timeout")

\* llm_sql_runner.py:449.
SetStatementTimeout ==
    CursorExecute("timeout", "SET LOCAL statement_timeout", "statement")

\* llm_sql_runner.py:451-452: the generated statement.
ExecuteSql == CursorExecute("statement", "SQL", "commit")

\* llm_sql_runner.py:454-455.
Commit == CursorExecute("commit", "COMMIT", "close_ok")

\* llm_sql_runner.py:456-461: ROLLBACK is sent; its own failure is swallowed
\* and the exception is raised again.
Rollback ==
    /\ sql_pc = "rollback"
    /\ \/ /\ db_log' = Append(db_log, [stmt |-> "ROLLBACK", ok |-> TRUE])
          /\ tx' = TxAfter("ROLLBACK")
       \/ /\ db_log' = Append(db_log, [stmt |-> "ROLLBACK", ok |-> FALSE])
          /\ UNCHANGED tx
    /\ sql_pc' = "close_raise"
    /\ UNCHANGED <<obj, q, sql_return>>
    /\ UNCHANGED notSql

\* llm_sql_runner.py:462-463 with db.py:43-48: cursor and connection are
\* closed; the server discards a transaction that is still open.
CloseConnection ==
    /\ sql_pc \in {"close_ok", "close_raise"}
    /\ tx' = IF tx \in {"open", "aborted"} THEN "discarded" ELSE tx
    /\ sql_return' = IF sql_pc = "close_ok" THEN "ok" ELSE "db error"
    /\ sql_pc' = "done"
    /\ UNCHANGED <<obj, q, db_log>>
    /\ UNCHANGED notSql

\* llm_sql_runner.py:466-501: one llm_find_orders call.
SqlInit ==
    /\ sql_pc = "generate"
    /\ obj \in LLMAnswers
    /\ q = NoQuery
    /\ db_log = <<>>
    /\ tx = "none"
    /\ sql_return = None

InitSql == SqlInit /\ WorkerIdle /\ IngressInit /\ StoreIdle /\ FindIdle /\ LoopIdle /\ LlmIdle /\ LateIdle

NextSql ==
    \/ GenerateSqlWithGemini
    \/ ValidateSql
    \/ Connect
    \/ Begin
    \/ SetReadOnly
    \/ SetStatementTimeout
    \/ ExecuteSql
    \/ Commit
    \/ Rollback
    \/ CloseConnection

SpecSql == InitSql /\ [][NextSql]_vars


\* validate_sql_readonly has returned for the generated query.
Validated == q # NoQuery /\ sql_pc # "validate"

\* validate_sql_readonly accepted the generated query.
Accepted == Validated /\ sql_return # "SQLValidationError"

\* C13: validate_sql_readonly accepts a query only if every table the query
\* references is one of customers, orders, order_items, refund_cases; a query
\* that references an allow-listed table together with any other table is
\* rejected.
C13_AcceptedOnlyAllowedTables ==
    Accepted => \A ref \in TablesOf(obj.query) : ref.name \in ALLOWED_TABLES

\* The statements the database received, without their outcome.
Sent == [i \in DOMAIN db_log |-> db_log[i].stmt]

\* C12: the generated SQL reaches the database only after
\* validate_sql_readonly accepted it and after BEGIN, the read-only setting
\* and the statement timeout succeeded, in that order, in the same
\* transaction; a rejected query sends nothing to the database; after a
\* failing statement ROLLBACK is sent and, once the call has ended, the
\* transaction is neither open nor committed.
C12_ValidatedReadOnlyExecution ==
    /\ db_log # <<>> =>
          /\ Validated
          /\ validate_sql_readonly(q.sql, q.params, DEFAULT_MAX_LIMIT) = "ok"
    /\ sql_return = "SQLValidationError" => db_log = <<>>
    /\ \A i \in DOMAIN db_log :
          db_log[i].stmt = "SQL" =>
              /\ i = 4
              /\ SubSeq(db_log, 1, 3) =
                    <<[stmt |-> "BEGIN", ok |-> TRUE],
                      [stmt |-> "SET LOCAL transaction_read_only = on", ok |-> TRUE],
                      [stmt |-> "SET LOCAL statement_timeout", ok |-> TRUE]>>
    /\ \A i \in DOMAIN db_log :
          (db_log[i].stmt # "ROLLBACK" /\ ~db_log[i].ok) =>
              /\ i < Len(db_log) => (db_log[i + 1].stmt = "ROLLBACK" /\ i + 1 = Len(db_log))
              /\ i = Len(db_log) => sql_pc = "rollback"
              /\ sql_pc = "done" => tx \in {"none", "rolled_back", "discarded"}

\* A generated statement failed inside the read-only transaction and the
\* call has ended.
C12_Witness ==
    /\ sql_pc = "done"
    /\ Len(db_log) = 5
    /\ db_log[4] = [stmt |-> "SQL", ok |-> FALSE]
    /\ db_log[5].stmt = "ROLLBACK"
    /\ tx = "rolled_back"


\* C14: when insert_refund_case meets a stored row with the same
\* source_message_id, only verification_status, verification_notes and
\* metadata change; case_id, order_id, classification and the sender keep
\* their stored values.
C14_ConflictKeepsOtherColumns ==
    [][\A r \in refund_cases : \A r2 \in refund_cases' :
          r.source_message_id = r2.source_message_id
          => /\ r2.case_id = r.case_id
             /\ r2.order_id = r.order_id
             /\ r2.classification = r.classification
             /\ r2.from_email = r.from_email]_vars


\* C15: for an envelope whose classification is not RETURN, REPLACEMENT or
\* REFUND the worker writes a PENDING_REVIEW row before it returns, and runs
\* no verification and no adjudication.
C15_OtherCategoryWritesPendingRow ==
    (pc = "done" /\ data # NoEnvelope /\ data.category \notin AcceptedCategories) =>
        /\ trace.row
        /\ WrittenRow.verification_status = "PENDING_REVIEW"
        /\ trace.loop_end = None
        /\ ~trace.adjudicator

(***************************************************************************)
(* One case from the entry of verify_request_with_db to the written row,   *)
(* with the loop's conversation and its calls recorded      -> SpecCase    *)
(***************************************************************************)
\* processor.py:318-369: the instructions and the context are the first two
\* messages.
InitialMessages == [len |-> 2, last |-> "context"]

append(msgs, message) == [len |-> msgs.len + 1, last |-> message]

\* Mutant of Dispatches: a tool the server does not list is called too.
Dispatches_AnyTool(a) == a.kind = "tool"

\* processor.py:432: whether the turn reaches db_session.call_tool.
Dispatches(a) == a.kind = "tool" /\ a.tool_name \in ListedTools

\* processor.py:393, 402, 422, 440: the messages.append of a turn.
MessagesAfter(msgs, a) ==
    CASE a.kind = "empty" -> append(msgs, "previous response was empty")
      [] a.kind = "invalid_json" -> append(msgs, "response was not valid JSON")
      [] a.kind = "tool" /\ a.tool_name \notin ListedTools -> append(msgs, "tool does not exist")
      [] a.kind = "tool" /\ a.tool_name \in ListedTools /\ a.call_ok -> append(msgs, "tool result")
      [] OTHER -> msgs

\* processor.py:316-372 with the conversation started.
ObservedVerifyStart ==
    /\ StartLoop
    /\ IF pc' = "loop"
       THEN /\ messages' = InitialMessages
            /\ llm_requests' = 0
            /\ tool_dispatches' = 0
            /\ order_list_dispatched' = FALSE
            /\ named_tool' = None
       ELSE UNCHANGED loopVars
    /\ UNCHANGED notCase

\* processor.py:373-444 with the conversation and the calls recorded.
ObservedVerifyTurn ==
    \E a \in TurnAnswers :
        /\ Turn(a)
        /\ llm_requests' = llm_requests + 1
        /\ tool_dispatches' = IF Dispatches(a) THEN tool_dispatches + 1 ELSE tool_dispatches
        /\ order_list_dispatched' =
              (order_list_dispatched
               \/ (Dispatches(a) /\ a.tool_name = "get_customer_orders_with_items"))
        /\ messages' = MessagesAfter(messages, a)
        /\ named_tool' = a.tool_name
        /\ UNCHANGED notCase

\* The worker at the entry of verify_request_with_db: an accepted envelope
\* is loaded and extracted, doc_server is connected.
CaseInit ==
    /\ sessions \in {ss \in SessionStates : "doc_server" \in ss}
    /\ pc = "verify"
    /\ blob_path \in {b \in DOMAIN Bucket : Bucket[b].category \in AcceptedCategories}
    /\ data = Bucket[blob_path]
    /\ turn = 0
    /\ fuzzy_tools_used = <<>>
    /\ verification_result = NoResult
    /\ adjudication_result = None
    /\ refund_cases = {}
    /\ uuid = 0
    /\ response = 0
    /\ runs = 1
    /\ trace = NoTrace
    /\ messages = InitialMessages
    /\ llm_requests = 0
    /\ tool_dispatches = 0
    /\ order_list_dispatched = FALSE
    /\ named_tool = None

InitCase == CaseInit /\ IngressInit /\ StoreIdle /\ FindIdle /\ SqlIdle /\ LlmIdle /\ LateIdle

NextCase ==
    \/ ObservedVerifyStart
    \/ ObservedVerifyTurn
    \/ LoopExhausted
    \/ Gate
    \/ InsertFuzzy
    \/ Adjudicate
    \/ InsertFinal

SpecCase == InitCase /\ [][NextCase]_vars


\* C16: whenever the loop dispatched get_customer_orders_with_items, that
\* tool is recorded in fuzzy_tools_used, and the case is not adjudicated.
C16_OrderListIsFuzzy ==
    order_list_dispatched =>
        /\ \E i \in DOMAIN fuzzy_tools_used :
              fuzzy_tools_used[i] = "get_customer_orders_with_items"
        /\ ~trace.adjudicator


\* The case specification with the scheduling of its steps: every awaited
\* call (the LLM request, the tool call, the database write) returns or
\* raises, so a step that can be taken is taken.
SpecCaseLive == SpecCase /\ WF_vars(NextCase)

\* C17: verify_request_with_db terminates; it makes at most max_turns LLM
\* decision requests and at most max_turns tool dispatches, and it returns
\* either the result of a terminate answer or None.
C17_LoopTerminatesWithinBounds ==
    /\ [](llm_requests <= max_turns /\ tool_dispatches <= max_turns)
    /\ [](trace.loop_end # None =>
            /\ pc \notin {"verify", "loop"}
            /\ IF trace.loop_end = "terminate"
               THEN /\ verification_result.returned
                    /\ verification_result.fuzzy_tools_used = fuzzy_tools_used
               ELSE verification_result = NoResult)
    /\ <>(pc \notin {"verify", "loop"})

\* The loop used its last turn on a tool call and returned None after
\* max_turns requests and max_turns dispatches.
C17_Witness ==
    /\ trace.loop_end = "exhausted"
    /\ llm_requests = max_turns
    /\ tool_dispatches = max_turns


\* C18: a turn in which the LLM names a tool the db_verification server did
\* not list dispatches nothing, appends the "tool does not exist" message to
\* the conversation and goes on to the next turn.
C18_UnlistedToolContinues ==
    [][(pc = "loop" /\ llm_requests' = llm_requests + 1
        /\ named_tool' # None /\ named_tool' \notin ListedTools)
       => /\ tool_dispatches' = tool_dispatches
          /\ messages' = append(messages, "tool does not exist")
          /\ pc' = "loop"
          /\ turn' = turn + 1
          /\ trace' = trace]_vars

\* The LLM has just named lookup_order, which the server does not list.
C18_Witness ==
    /\ pc = "loop"
    /\ named_tool \in UnlistedTools
    /\ messages.last = "tool does not exist"
    /\ llm_requests > tool_dispatches


\* C30: a row is written VERIFIED only if the verification loop of the case
\* got tool results (verify_from_email_matches_customer matched, an order
\* lookup tool returned the order): at least one tool call was dispatched and
\* returned before the terminate answer, so a terminate answer on the first
\* turn does not lead to a VERIFIED row.
C30_VerifiedOnlyAfterToolResults ==
    \A r \in refund_cases :
        r.verification_status = "VERIFIED" =>
            /\ tool_dispatches >= 1
            /\ turn >= 1

(***************************************************************************)
(* LLM calls of the case worker: MCPProcessor.generate_with_retry and the  *)
(* calls of the Adjudicator.                  -> SpecRetry, SpecSem        *)
(***************************************************************************)
\* processor.py:63: asyncio.Semaphore(5).
SemaphorePermits == 5

\* processor.py:85: max_retries=10.
max_retries == 10

\* processor.py:92.
base_delay == 2

\* Coroutines handling cases at the same time.
MaxCases == 6

\* processor.py:300, 382 go through MCPProcessor.generate_with_retry;
\* adjudicator_agent.py:128 (category and condition matching, through
\* Adjudicator.generate_with_retry) and 646 use the Adjudicator's own client.
SemSites == {"extraction", "verification_turn"}
AdjudicatorSites == {"matching", "customer_explanation"}

\* str(e) of the provider's errors, as words.
ProviderErrors ==
    {<<"429", "RESOURCE_EXHAUSTED">>, <<"RESOURCE_EXHAUSTED">>, <<"503", "UNAVAILABLE">>,
     <<"Connection", "reset", "by", "peer">>, <<"Request", "timed", "out">>}

\* random.uniform(0, 1): the ends of the interval.
Jitters == {0, 1}

\* processor.py:105: "429" in error_str or "RESOURCE_EXHAUSTED" in error_str.
IsQuotaError(error_str) ==
    \E i \in DOMAIN error_str : error_str[i] \in {"429", "RESOURCE_EXHAUSTED"}

\* processor.py:107 without the jitter.
Backoff(attempt) == base_delay * (2 ^ attempt)

NoCall == [site |-> None, pc |-> "idle", attempt |-> 0, delay |-> 0, error |-> <<>>]

\* processor.py:85-90 and adjudicator_agent.py:126-128: a coroutine starts an
\* LLM call at one of the call sites.
StartCall(c, site) ==
    /\ calls[c].pc \in {"idle", "raised"}
    /\ calls' = [calls EXCEPT ![c] =
                    IF site \in AdjudicatorSites
                    THEN [NoCall EXCEPT !.site = site, !.pc = "request"]
                    ELSE IF ~gemini_client
                    THEN [NoCall EXCEPT !.site = site, !.pc = "raised",
                                        !.error = <<"Gemini", "Client", "not", "initialized">>]
                    ELSE [NoCall EXCEPT !.site = site, !.pc = "acquire"]]
    /\ UNCHANGED <<sem, gemini_client>>
    /\ UNCHANGED notLlm

\* processor.py:93-97: async with self.sem; the first attempt is sent.
Acquire(c) ==
    /\ calls[c].pc = "acquire"
    /\ sem > 0
    /\ sem' = sem - 1
    /\ calls' = [calls EXCEPT ![c].pc = "request"]
    /\ UNCHANGED gemini_client
    /\ UNCHANGED notLlm

\* processor.py:97-102: the provider answers; the semaphore is released and
\* the coroutine goes on.
ProviderReturns(c) ==
    /\ calls[c].pc = "request"
    /\ calls[c].site \in SemSites
    /\ calls' = [calls EXCEPT ![c] = NoCall]
    /\ sem' = sem + 1
    /\ UNCHANGED gemini_client
    /\ UNCHANGED notLlm

\* processor.py:103-111: the attempt raises; a quota error is slept on, any
\* other error is raised again at once.
ProviderFails(c) ==
    /\ calls[c].pc = "request"
    /\ calls[c].site \in SemSites
    /\ \E e \in ProviderErrors, jitter \in Jitters :
          IF IsQuotaError(e)
          THEN /\ calls' = [calls EXCEPT ![c].pc = "sleep", ![c].error = e,
                                         ![c].delay = Backoff(calls[c].attempt) + jitter]
               /\ UNCHANGED sem
          ELSE /\ calls' = [calls EXCEPT ![c].pc = "raised", ![c].error = e]
               /\ sem' = sem + 1
    /\ UNCHANGED gemini_client
    /\ UNCHANGED notLlm

\* processor.py:94, 109, 112: the sleep ends; the next attempt is sent, or
\* the attempts are used up and the call fails.
Wake(c) ==
    /\ calls[c].pc = "sleep"
    /\ IF calls[c].attempt + 1 < max_retries
       THEN /\ calls' = [calls EXCEPT ![c].pc = "request", ![c].attempt = @ + 1]
            /\ UNCHANGED sem
       ELSE /\ calls' = [calls EXCEPT ![c].pc = "raised"]
            /\ sem' = sem + 1
    /\ UNCHANGED gemini_client
    /\ UNCHANGED notLlm

\* adjudicator_agent.py:128-158, 646: a request of the Adjudicator returns
\* or raises, and the coroutine goes on.
AdjudicatorCallEnds(c) ==
    /\ calls[c].pc = "request"
    /\ calls[c].site \in AdjudicatorSites
    /\ calls' = [calls EXCEPT ![c] = NoCall]
    /\ UNCHANGED <<sem, gemini_client>>
    /\ UNCHANGED notLlm

LlmInit(n) ==
    /\ sem = SemaphorePermits
    /\ calls = [c \in 1..n |-> NoCall]

\* One coroutine calling MCPProcessor.generate_with_retry.
InitRetry ==
    /\ LlmInit(1)
    /\ gemini_client \in BOOLEAN
    /\ WorkerIdle /\ IngressInit /\ StoreIdle /\ FindIdle /\ SqlIdle /\ LoopIdle /\ LateIdle

NextRetry ==
    \/ \E site \in SemSites : StartCall(1, site)
    \/ Acquire(1)
    \/ ProviderReturns(1)
    \/ ProviderFails(1)
    \/ Wake(1)

SpecRetry == InitRetry /\ [][NextRetry]_vars

\* MaxCases coroutines and a provider that answers every request.
InitSem ==
    /\ LlmInit(MaxCases)
    /\ gemini_client = TRUE
    /\ WorkerIdle /\ IngressInit /\ StoreIdle /\ FindIdle /\ SqlIdle /\ LoopIdle /\ LateIdle

NextSem ==
    \/ \E c \in 1..MaxCases, site \in SemSites \cup AdjudicatorSites : StartCall(c, site)
    \/ \E c \in 1..MaxCases : Acquire(c)
    \/ \E c \in 1..MaxCases : ProviderReturns(c)
    \/ \E c \in 1..MaxCases : AdjudicatorCallEnds(c)

SpecSem == InitSem /\ [][NextSem]_vars


\* The LLM requests that are in flight.
InFlight == {c \in DOMAIN calls : calls[c].pc = "request"}

\* C19: at any moment at most 5 LLM calls of the case-worker process are in
\* flight, over all cases and all call sites (extraction, verification-loop
\* turns, the Adjudicator's matching and explanation calls).
C19_AtMostFiveInFlight == Cardinality(InFlight) <= 5

\* C20: a call through MCPProcessor.generate_with_retry that meets a
\* transient provider error (429, 503, connection reset, timeout) sleeps
\* 2 * 2^attempt seconds plus a jitter of at most one second and is sent
\* again; it is attempted at most 10 times and it fails only after the tenth
\* attempt failed.
C20_TransientErrorsRetried ==
    \A c \in DOMAIN calls :
        /\ calls[c].attempt + 1 <= 10
        /\ calls[c].pc = "sleep" =>
              /\ calls[c].delay >= 2 * (2 ^ calls[c].attempt)
              /\ calls[c].delay <= 2 * (2 ^ calls[c].attempt) + 1
        /\ (calls[c].pc = "raised" /\ calls[c].error \in ProviderErrors) =>
              calls[c].attempt + 1 = 10

(***************************************************************************)
(* generate_sql_with_gemini for every email_info and max_limit: the        *)
(* shortlist size is decided in code.                                      *)
(***************************************************************************)
MaxLimit == 6

\* The values an identifier of email_info can have: absent, empty, present.
IdentifierValues == {None, "", "INV-1"}

EmailInfos == [invoice_number : IdentifierValues, order_invoice_id : IdentifierValues]

\* The max_limit arguments: small ones around 5, and the default.
MaxLimits == 0..MaxLimit \cup {DEFAULT_MAX_LIMIT}

\* Python's truth value of email_info.get(key).
IsSet(value) == value \notin {None, ""}

min(a, b) == IF a <= b THEN a ELSE b

\* llm_sql_runner.py:183-191.
desired_limit(info, limit) ==
    IF IsSet(info.invoice_number) \/ IsSet(info.order_invoice_id) THEN 1
    ELSE min(5, limit)

\* The parameters the SQL-writing LLM may answer: a limit of its own choice
\* (below or above max_limit) or a string.
LimitParamValues ==
    {[type |-> "int", value |-> 3], [type |-> "int", value |-> 201],
     [type |-> "str", value |-> 0]}

LimitParamLists == UNION {[1..n -> LimitParamValues] : n \in 0..MaxParams}

\* Answers with a well-formed SELECT over orders, with or without a WHERE
\* placeholder.
LimitAnswers ==
    [usable : {TRUE},
     query  : {x \in Queries : /\ x.verb = "select" /\ ~x.upper /\ x.glue = "comma"
                               /\ x.tables = <<[schema |-> None, name |-> "orders"]>>
                               /\ x.ending = "limit"},
     params : LimitParamLists]

\* llm_sql_runner.py:379-427 with _desired_limit(email_info, max_limit).
GenerateSqlForEmail == GenerateSql(desired_limit(email_info, max_limit_arg))

\* llm_sql_runner.py:482 with the caller's max_limit.
ValidateSqlForLimit == Validate(max_limit_arg)

\* llm_generate_and_execute(email_info, max_limit=max_limit).
LimitInit ==
    /\ sql_pc = "generate"
    /\ obj \in LimitAnswers
    /\ q = NoQuery
    /\ db_log = <<>>
    /\ tx = "none"
    /\ sql_return = None
    /\ email_info \in EmailInfos
    /\ max_limit_arg \in MaxLimits

InitLimit ==
    /\ LimitInit
    /\ WorkerIdle /\ IngressInit /\ StoreIdle /\ FindIdle /\ LoopIdle /\ LlmIdle
    /\ OthersIdle("limit")

NextLimit ==
    \/ GenerateSqlForEmail
    \/ ValidateSqlForLimit
    \/ Connect
    \/ Begin
    \/ SetReadOnly
    \/ SetStatementTimeout
    \/ ExecuteSql
    \/ Commit
    \/ Rollback
    \/ CloseConnection

SpecLimit == InitLimit /\ [][NextLimit]_vars

\* The generated statement was sent to the database (with q.params).
SqlSent == \E i \in DOMAIN db_log : db_log[i].stmt = "SQL"

\* The last parameter of the generated query.
LastParam == q.params[Len(q.params)]

\* C21: the last parameter of every query generate_sql_with_gemini produced,
\* and so of every query sent to the database, is the integer 1 when
\* email_info has a non-empty invoice_number or order_invoice_id and
\* min(5, max_limit) otherwise, whatever the generator answered; a query that
\* was sent has no last parameter above max_limit.
C21_LimitDecidedInCode ==
    /\ q # NoQuery =>
          /\ q.params # <<>>
          /\ LastParam.type = "int"
          /\ LastParam.value =
                IF \/ email_info.invoice_number \notin {None, ""}
                   \/ email_info.order_invoice_id \notin {None, ""}
                THEN 1
                ELSE IF max_limit_arg < 5 THEN max_limit_arg ELSE 5
    /\ SqlSent => (q # NoQuery /\ LastParam.value <= max_limit_arg)

\* A query was sent whose generator had asked for another limit (3), for an
\* email_info without identifiers and a max_limit below 5.
C21_Witness ==
    /\ SqlSent
    /\ obj.params # <<>>
    /\ obj.params[Len(obj.params)] = [type |-> "int", value |-> 3]
    /\ email_info = [invoice_number |-> "", order_invoice_id |-> None]
    /\ max_limit_arg = 4
    /\ LastParam.value = 4

(***************************************************************************)
(* POST /process-demo: the server-sent event stream.                       *)
(***************************************************************************)
MaxEvents == 3

\* What process_demo_scenario yields: a dict with a status; json.dumps can
\* serialise it or raises TypeError.
ScenarioEvents == [status : {"active", "complete", "error"}, serialisable : BOOLEAN]

\* process_demo_scenario: the events it yields, and whether it then returns
\* or raises an Exception.
Scenarios ==
    [events : UNION {[1..n -> ScenarioEvents] : n \in 0..MaxEvents},
     ending : {"return", "raise"}]

\* What request.json() gives.
RequestBodies == {"dict", "list", "invalid json"}

SseEvent(event, payload) == [event |-> event, data |-> payload]

\* app.py:82-84, 106-112: the body is read and the stream is returned; a
\* body that is not JSON, or not a dict, raises and the answer is 500.
ProcessDemo ==
    /\ demo_pc = "request"
    /\ IF scenario_data = "dict"
       THEN demo_pc' = "iterating" /\ demo_response' = 200
       ELSE demo_pc' = "done" /\ demo_response' = 500
    /\ UNCHANGED <<scenario_data, scenario, stream>>
    /\ UNCHANGED notDemo

\* app.py:88-92: the next event of process_demo_scenario is sent as a
\* progress event.
YieldProgress ==
    /\ demo_pc = "iterating"
    /\ scenario.events # <<>>
    /\ Head(scenario.events).serialisable
    /\ stream' = Append(stream, SseEvent("progress", Head(scenario.events).status))
    /\ scenario' = [scenario EXCEPT !.events = Tail(@)]
    /\ UNCHANGED <<demo_pc, scenario_data, demo_response>>
    /\ UNCHANGED notDemo

\* app.py:93-97: process_demo_scenario is exhausted.
YieldComplete ==
    /\ demo_pc = "iterating"
    /\ scenario.events = <<>>
    /\ scenario.ending = "return"
    /\ stream' = Append(stream, SseEvent("complete", "complete"))
    /\ demo_pc' = "completed"
    /\ UNCHANGED <<scenario_data, scenario, demo_response>>
    /\ UNCHANGED notDemo

\* Mutant of YieldError: the except clause also takes over after the
\* complete event was yielded.
YieldError_AfterComplete ==
    /\ \/ /\ demo_pc = "iterating"
          /\ \/ scenario.events # <<>> /\ ~Head(scenario.events).serialisable
             \/ scenario.events = <<>> /\ scenario.ending = "raise"
       \/ demo_pc = "completed"
    /\ stream' = Append(stream, SseEvent("error", "error"))
    /\ demo_pc' = "failed"
    /\ UNCHANGED <<scenario_data, scenario, demo_response>>
    /\ UNCHANGED notDemo

\* app.py:98-104: process_demo_scenario or json.dumps(event) raised inside
\* the try; the except clause yields the error event.
YieldError ==
    /\ demo_pc = "iterating"
    /\ \/ scenario.events # <<>> /\ ~Head(scenario.events).serialisable
       \/ scenario.events = <<>> /\ scenario.ending = "raise"
    /\ stream' = Append(stream, SseEvent("error", "error"))
    /\ demo_pc' = "failed"
    /\ UNCHANGED <<scenario_data, scenario, demo_response>>
    /\ UNCHANGED notDemo

\* app.py:86-104: event_generator is resumed after its last yield and ends.
GeneratorEnds ==
    /\ demo_pc \in {"completed", "failed"}
    /\ demo_pc' = "closed"
    /\ UNCHANGED <<scenario_data, scenario, stream, demo_response>>
    /\ UNCHANGED notDemo

DemoInit ==
    /\ demo_pc = "request"
    /\ scenario_data \in RequestBodies
    /\ scenario \in Scenarios
    /\ stream = <<>>
    /\ demo_response = 0

InitDemo ==
    /\ DemoInit
    /\ WorkerIdle /\ IngressInit /\ StoreIdle /\ AuxIdle
    /\ OthersIdle("demo")

NextDemo ==
    \/ ProcessDemo
    \/ YieldProgress
    \/ YieldComplete
    \/ YieldError
    \/ GeneratorEnds

SpecDemo == InitDemo /\ [][NextDemo]_vars

\* The server keeps resuming the generator while the client reads.
SpecDemoLive == SpecDemo /\ WF_vars(NextDemo)

Terminal(e) == e.event \in {"complete", "error"}

\* C22: in every event stream of POST /process-demo a terminal event
\* (complete or error) is the last event sent, so there is at most one and
\* no progress event follows it; a stream that has ended ends with a
\* terminal event; and every stream ends.
C22_OneTerminalEventLast ==
    /\ [](\A i \in DOMAIN stream : Terminal(stream[i]) => i = Len(stream))
    /\ [](demo_pc = "closed" => (stream # <<>> /\ Terminal(stream[Len(stream)])))
    /\ [](demo_response = 200 => <>(demo_pc = "closed"))

\* A stream that sent progress events, met an event json.dumps cannot
\* serialise, and ended with the error event.
C22_Witness ==
    /\ demo_pc = "closed"
    /\ Len(stream) = 3
    /\ stream[1].event = "progress"
    /\ stream[3].event = "error"
    /\ scenario.events # <<>>

(***************************************************************************)
(* Adjudicator.adjudicate: build_context, the policy rules, make_decision. *)
(***************************************************************************)
MaxDay == 2

MaxRules == 2

\* Calendar days, counted from some day 0.
Days == 0..MaxDay

\* datetime.now().date()
Today == MaxDay

NoDate == [present |-> FALSE, day |-> 0]

\* delivered_at / return_request_date of the verified order: absent or a
\* valid date.
Dates == {NoDate} \cup [present : {TRUE}, day : Days]

VerifiedOrders ==
    [delivered_at        : Dates,
     return_request_date : Dates,
     item_condition      : {None, "NEW_UNOPENED", "DAMAGED_DEFECTIVE"}]

\* adjudicator_agent.py:534-570 in production mode (adjudicate is called
\* without user_request).
DaysSinceDelivery(order) ==
    IF order.delivered_at.present /\ order.return_request_date.present
    THEN order.return_request_date.day - order.delivered_at.day
    ELSE IF order.delivered_at.present
    THEN Today - order.delivered_at.day
    ELSE 9999

\* adjudicator_agent.py:488-596: the fields of the context make_decision reads.
build_context(order) ==
    [days_since_delivery |-> DaysSinceDelivery(order),
     item_condition      |-> IF order.item_condition # None THEN order.item_condition
                             ELSE "UNKNOWN"]

\* A days_allowed value of a rule: null, an int, a float (in tenths) or a
\* string (its characters).
DaysAllowed(type, tenths, text) == [type |-> type, tenths |-> tenths, text |-> text]

DaysAllowedValues ==
    {DaysAllowed("none", 0, <<>>),
     DaysAllowed("int", 0, <<>>), DaysAllowed("int", 10, <<>>),
     DaysAllowed("float", 15, <<>>),
     DaysAllowed("str", 0, <<"1">>), DaysAllowed("str", 0, <<" ", "1", "0">>),
     DaysAllowed("str", 0, <<"1", "d">>)}

\* The conditions a rule requires: none, or a list of words.
ConditionLists == {<<>>, <<"NEW">>, <<"sealed", "damaged">>}

Rules == [days_allowed : DaysAllowedValues, conditions : ConditionLists]

\* The rules that may follow the first one in the query's answer.
OtherRules ==
    {[days_allowed |-> DaysAllowed("int", 0, <<>>), conditions |-> <<>>],
     [days_allowed |-> DaysAllowed("int", 10, <<>>), conditions |-> <<>>]}

\* What execute_policy_query returns: at most MaxRules rules (the query has
\* LIMIT 3), or [] when the query failed.
RuleLists ==
    {<<>>} \cup {<<r>> \o others : r \in Rules,
                 others \in UNION {[1..n -> OtherRules] : n \in 0..(MaxRules - 1)}}

Digits == <<"0", "1", "2", "3", "4", "5", "6", "7", "8", "9">>

IsDigit(c) == \E i \in DOMAIN Digits : Digits[i] = c

DigitValue(c) == (CHOOSE i \in DOMAIN Digits : Digits[i] = c) - 1

RECURSIVE Numeral(_)
\* The number a sequence of digits writes.
Numeral(s) ==
    IF s = <<>> THEN 0 ELSE Numeral(SubSeq(s, 1, Len(s) - 1)) * 10 + DigitValue(s[Len(s)])

\* Python's int(): an int is itself, a float is truncated towards zero, a
\* string is stripped and must be a decimal numeral; else ValueError.
int(v) ==
    CASE v.type = "int" -> [ok |-> TRUE, value |-> v.tenths \div 10]
      [] v.type = "float" ->
            [ok |-> TRUE,
             value |-> IF v.tenths >= 0 THEN v.tenths \div 10 ELSE -((-v.tenths) \div 10)]
      [] v.type = "str" ->
            LET s == strip(v.text)
            IN  IF s # <<>> /\ \A i \in DOMAIN s : IsDigit(s[i])
                THEN [ok |-> TRUE, value |-> Numeral(s)]
                ELSE [ok |-> FALSE, value |-> 0]
      [] OTHER -> [ok |-> FALSE, value |-> 0]

\* adjudicator_agent.py:448-454.
condition_mapping(item_condition) ==
    CASE item_condition = "NEW_UNOPENED" -> {"unopened", "new", "sealed"}
      [] item_condition = "OPENED_LIKE_NEW" -> {"opened", "like new", "good"}
      [] item_condition = "DAMAGED_DEFECTIVE" -> {"damaged", "defective"}
      [] item_condition = "MISSING_PARTS" -> {"incomplete", "missing parts"}
      [] OTHER -> {}

\* str.lower() on the words of ConditionLists.
lower_word(w) == IF w = "NEW" THEN "new" ELSE w

\* adjudicator_agent.py:456-460.
condition_met(required_conditions, item_condition) ==
    \/ required_conditions = <<>>
    \/ \E i \in DOMAIN required_conditions :
          lower_word(required_conditions[i]) \in condition_mapping(item_condition)

Verdict(value, why) == [decision |-> value, reason |-> why]

\* Mutant of WindowExpired: only a return asked before the delivery is late.
WindowExpired_Reversed(days_since, days_allowed) == days_since < 0

\* adjudicator_agent.py:436.
WindowExpired(days_since, days_allowed) == days_since > days_allowed

\* adjudicator_agent.py:395-483.
make_decision(ctx, rule_list) ==
    IF rule_list = <<>> THEN Verdict("MANUAL_REVIEW", "no rules")
    ELSE LET rule == rule_list[1]
         IN  IF rule.days_allowed.type = "none"
             THEN Verdict("MANUAL_REVIEW", "no defined return window")
             ELSE IF ~int(rule.days_allowed).ok
             THEN Verdict("MANUAL_REVIEW", "invalid days_allowed")
             ELSE IF WindowExpired(ctx.days_since_delivery, int(rule.days_allowed).value)
             THEN Verdict("DENIED", "return window expired")
             ELSE IF /\ rule.conditions # <<>>
                     /\ ~condition_met(rule.conditions, ctx.item_condition)
             THEN Verdict("DENIED", "item condition")
             ELSE Verdict("APPROVED", "eligible")

NoContext == [days_since_delivery |-> 0, item_condition |-> None]

NoVerdict == Verdict(None, None)

\* adjudicator_agent.py:691.
BuildContext ==
    /\ adj_pc = "build_context"
    /\ context' = build_context(verified_order)
    /\ adj_pc' = "execute_policy_query"
    /\ UNCHANGED <<verified_order, rules, decision>>
    /\ UNCHANGED notAdj

\* adjudicator_agent.py:713 with 379-390: the rules of the graph, or [] when
\* the query raised.
ExecutePolicyQuery ==
    /\ adj_pc = "execute_policy_query"
    /\ rules' \in RuleLists
    /\ adj_pc' = "make_decision"
    /\ UNCHANGED <<verified_order, context, decision>>
    /\ UNCHANGED notAdj

\* adjudicator_agent.py:716.
MakeDecision ==
    /\ adj_pc = "make_decision"
    /\ decision' = make_decision(context, rules)
    /\ adj_pc' = "done"
    /\ UNCHANGED <<verified_order, context, rules>>
    /\ UNCHANGED notAdj

AdjInit ==
    /\ adj_pc = "build_context"
    /\ verified_order \in VerifiedOrders
    /\ context = NoContext
    /\ rules = <<>>
    /\ decision = NoVerdict

InitAdj ==
    /\ AdjInit
    /\ WorkerIdle /\ IngressInit /\ StoreIdle /\ AuxIdle
    /\ OthersIdle("adjudicate")

NextAdj ==
    \/ BuildContext
    \/ ExecutePolicyQuery
    \/ MakeDecision

SpecAdj == InitAdj /\ [][NextAdj]_vars

\* C23: when the verified order has no delivery date (days_since_delivery is
\* the sentinel 9999) the decision is MANUAL_REVIEW, whatever the rules are.
C23_SentinelIsManualReview ==
    (adj_pc = "done" /\ ~verified_order.delivered_at.present) =>
        /\ context.days_since_delivery = 9999
        /\ decision.decision = "MANUAL_REVIEW"


\* The rule make_decision applies: the first one of the query's answer.
AppliedRule == rules[1]

\* The rule's days_allowed is a number or a numeral.
UsableDaysAllowed(v) == v.type \in {"int", "float"} \/ (v.type = "str" /\ int(v).ok)

\* The value of a usable days_allowed, in tenths of a day.
WindowTenths(v) == IF v.type = "str" THEN int(v).value * 10 ELSE v.tenths

\* C24: make_decision returns DENIED whenever days_since_delivery is greater
\* than the applied rule's days_allowed; it returns APPROVED only when
\* days_since_delivery is at most days_allowed and the rule's required
\* conditions are met by the item's condition; it returns MANUAL_REVIEW when
\* no rule was found or the rule has no usable days_allowed; it returns no
\* other value.
C24_DecisionFollowsWindow ==
    adj_pc = "done" =>
        LET found  == rules # <<>>
            usable == found /\ UsableDaysAllowed(AppliedRule.days_allowed)
        IN  /\ decision.decision \in {"APPROVED", "DENIED", "MANUAL_REVIEW"}
            /\ (usable /\ context.days_since_delivery * 10
                              > WindowTenths(AppliedRule.days_allowed))
                  => decision.decision = "DENIED"
            /\ decision.decision = "APPROVED" =>
                  /\ usable
                  /\ context.days_since_delivery * 10
                        <= WindowTenths(AppliedRule.days_allowed)
                  /\ \/ AppliedRule.conditions = <<>>
                     \/ \E i \in DOMAIN AppliedRule.conditions :
                           lower_word(AppliedRule.conditions[i])
                               \in condition_mapping(context.item_condition)
            /\ ~usable => decision.decision = "MANUAL_REVIEW"

\* A return asked on the last day of a one-day window, for a rule whose
\* required condition the item meets, was approved although a later rule of
\* the answer has a shorter window.
C24_Witness ==
    /\ adj_pc = "done"
    /\ Len(rules) = 2
    /\ AppliedRule = [days_allowed |-> DaysAllowed("int", 10, <<>>), conditions |-> <<"NEW">>]
    /\ rules[2].days_allowed = DaysAllowed("int", 0, <<>>)
    /\ context = [days_since_delivery |-> 1, item_condition |-> "NEW_UNOPENED"]
    /\ decision.decision = "APPROVED"

(***************************************************************************)
(* Extraction stage: the source citation of an entity                      *)
(* (CitationManager, generate_cypher_statements, parse_citation).          *)
(***************************************************************************)
MaxExcerpt == 5

\* text_excerpt of an entity: missing, or a text of up to MaxExcerpt characters.
NoExcerpt == [present |-> FALSE, text |-> <<>>]

Excerpts ==
    {NoExcerpt}
    \cup [present : {TRUE}, text : UNION {[1..n -> Chars] : n \in 0..MaxExcerpt}]

\* combined_policy.md: a header line that belongs to no page, and the lines
\* "ab ab" and "A baba".
PolicyMarkdowns ==
    {<<<<"b", "b">>, <<"a", "b", " ", "a", "b">>, <<"A", " ", "b", "a", "b", "a">>>>,
     <<<<"b", "b">>, <<"A", " ", "b", "a", "b", "a">>>>}

Page(filename, page, start_line, end_line) ==
    [filename |-> filename, page |-> page, start_line |-> start_line, end_line |-> end_line]

\* combined_policy_index.json: missing, covering lines 2 and 3, or covering
\* line 2 only.
PolicyIndexes ==
    {<<>>,
     <<Page(<<"Bestbuytnc1", ".pdf">>, 1, 2, 2), Page(<<"Bestbuytnc1", ".pdf">>, 2, 3, 3)>>,
     <<Page(<<"Bestbuytnc1", ".pdf">>, 1, 2, 2)>>}

NoPage == Page(<<>>, 0, 0, 0)

\* tools.py:184-189.
get_page_for_line(pages, line_num) ==
    LET hits == {k \in DOMAIN pages :
                    pages[k].start_line <= line_num /\ line_num <= pages[k].end_line}
    IN  IF hits = {} THEN NoPage
        ELSE pages[CHOOSE k \in hits : \A other \in hits : k <= other]

\* Python's `needle in haystack` on strings.
IsSubstring(needle, haystack) ==
    \E k \in 0..(Len(haystack) - Len(needle)) :
        SubSeq(haystack, k + 1, k + Len(needle)) = needle

RECURSIVE ToDigits(_)
\* str(n) for n >= 0.
ToDigits(n) ==
    IF n < 10 THEN <<Digits[n + 1]>>
    ELSE ToDigits(n \div 10) \o <<Digits[(n % 10) + 1]>>

RECURSIVE split(_)
\* str.split(): the words between runs of whitespace.
split(s) ==
    LET t == lstrip(s)
    IN  IF t = <<>> THEN <<>>
        ELSE LET ends == {k \in 1..Len(t) : t[k] = " "}
                 stop == IF ends = {} THEN Len(t) + 1
                         ELSE CHOOSE k \in ends : \A other \in ends : k <= other
             IN  <<SubSeq(t, 1, stop - 1)>> \o split(SubSeq(t, stop, Len(t)))

RECURSIVE join(_)
\* " ".join(words)
join(words) ==
    IF words = <<>> THEN <<>>
    ELSE IF Len(words) = 1 THEN words[1]
    ELSE words[1] \o <<" ">> \o join(Tail(words))

\* tools.py:234-239.
fallback_citation(pages) ==
    IF pages # <<>> THEN pages[1].filename \o <<":page", "1">>
    ELSE <<"unknown", ":page", "1">>

\* tools.py:208-212: the first line that contains the needle and lies on a
\* page, or 0.
FirstCitedLine(lines, pages, needle) ==
    LET hits == {i \in DOMAIN lines : /\ IsSubstring(needle, lower(lines[i]))
                                      /\ get_page_for_line(pages, i) # NoPage}
    IN  IF hits = {} THEN 0 ELSE CHOOSE i \in hits : \A other \in hits : i <= other

\* tools.py:212: f"{page['filename']}:page{page['page']}:line{i}"
LineCitation(pages, i) ==
    LET page == get_page_for_line(pages, i)
    IN  page.filename \o <<":page">> \o ToDigits(page.page) \o <<":line">> \o ToDigits(i)

\* tools.py:191-232.
find_text_citation(lines, pages, excerpt) ==
    IF ~excerpt.present \/ excerpt.text = <<>> \/ Len(excerpt.text) < 5
    THEN fallback_citation(pages)
    ELSE LET search_text == lower(strip(excerpt.text))
             short_text  == IF Len(search_text) > 50 THEN SubSeq(search_text, 1, 50)
                            ELSE search_text
             words       == split(search_text)
             key_phrase  == join(IF Len(words) > 5 THEN SubSeq(words, 1, 5) ELSE words)
         IN  IF FirstCitedLine(lines, pages, search_text) # 0
             THEN LineCitation(pages, FirstCitedLine(lines, pages, search_text))
             ELSE IF FirstCitedLine(lines, pages, short_text) # 0
             THEN LineCitation(pages, FirstCitedLine(lines, pages, short_text))
             ELSE IF FirstCitedLine(lines, pages, key_phrase) # 0
             THEN LineCitation(pages, FirstCitedLine(lines, pages, key_phrase))
             ELSE fallback_citation(pages)

\* re.IGNORECASE on the file extension.
lower_ext(atom) == IF atom = ".PDF" THEN ".pdf" ELSE atom

\* source_retrieval.py:20-46: the citation matches
\* ^(.+\.pdf):page(\d+):line(\d+)$ (ignoring case), or None is returned.
parse_citation(citation) ==
    /\ citation # <<>>
    /\ \E i, j \in DOMAIN citation :
          /\ 1 < i /\ i + 2 < j /\ j < Len(citation)
          /\ lower_ext(citation[i]) = ".pdf"
          /\ citation[i + 1] = ":page"
          /\ \A k \in (i + 2)..(j - 1) : IsDigit(citation[k])
          /\ citation[j] = ":line"
          /\ \A k \in (j + 1)..Len(citation) : IsDigit(citation[k])

NoStatement == [name |-> "", source_citation |-> <<>>]

\* extraction_agent.py:532-534 with tools.py:241-254.
AddCitationsToEntities ==
    /\ cite_pc = "add_citations"
    /\ entity' = [entity EXCEPT
                     !.source_citation =
                         find_text_citation(markdown, page_index, entity.text_excerpt)]
    /\ cite_pc' = "generate_cypher"
    /\ UNCHANGED <<markdown, page_index, node_statement>>
    /\ UNCHANGED notCite

\* extraction_agent.py:451-479: the node statement of the entity; an entity
\* without a name gets none.
GenerateNodeStatement ==
    /\ cite_pc = "generate_cypher"
    /\ node_statement' =
          IF entity.name = "" THEN NoStatement
          ELSE [name |-> entity.name, source_citation |-> entity.source_citation]
    /\ cite_pc' = "done"
    /\ UNCHANGED <<markdown, page_index, entity>>
    /\ UNCHANGED notCite

CiteInit ==
    /\ cite_pc = "add_citations"
    /\ markdown \in PolicyMarkdowns
    /\ page_index \in PolicyIndexes
    /\ entity \in [name : {"", "Laptops"}, text_excerpt : Excerpts, source_citation : {<<>>}]
    /\ node_statement = NoStatement

InitCite ==
    /\ CiteInit
    /\ WorkerIdle /\ IngressInit /\ StoreIdle /\ AuxIdle
    /\ OthersIdle("citations")

NextCite ==
    \/ AddCitationsToEntities
    \/ GenerateNodeStatement

SpecCite == InitCite /\ [][NextCite]_vars

\* C25: every node statement of the extraction stage has a non-empty
\* source_citation that parse_citation accepts (<filename>:page<N>:line<M>),
\* also for an entity whose text excerpt is missing, shorter than 5
\* characters or not found in the markdown.
C25_CitationIsParseable ==
    node_statement # NoStatement =>
        /\ node_statement.source_citation # <<>>
        /\ parse_citation(node_statement.source_citation)

(***************************************************************************)
(* Extraction stage: GraphLinker and generate_cypher_statements.           *)
(***************************************************************************)
MaxEntities == 2

\* str.lower() on the labels and names of the model.
lower_name(s) ==
    CASE s = "Product" -> "product"
      [] s = "Laptops" -> "laptops"
      [] s = "TVs" -> "tvs"
      [] OTHER -> s

\* SequenceMatcher(None, a, b).ratio(), in thousandths, for the lowercased
\* names of the model.
Ratio(a, b) ==
    CASE a = b -> 1000
      [] {a, b} = {"laptops", "laptop"} -> 923
      [] {a, b} = {"tvs", "tv"} -> 800
      [] {a, b} = {"laptops", "tvs"} -> 400
      [] {a, b} = {"laptop", "tv"} -> 250
      [] OTHER -> 222

\* The entities the LLM may extract: a label in either case, a name in
\* either case or none.
RawEntities == [label : {"Product", "product"}, name : {"Laptops", "laptops", "TVs", ""}]

\* The relationships it may extract: the source written as some entity's
\* name, in another case, or misspelt; the target an entity or an unknown name.
RawRelationships ==
    [from_label : {"Product", "product"},
     from_name  : {"Laptops", "laptops", "laptop", "tv"},
     type       : {"RELATED_TO"},
     to_label   : {"Product"},
     to_name    : {"TVs", "Phones"}]

\* The schema's node labels: with or without the label the LLM used.
Schemas == {{"Product"}, {}}

Key(label, name) == <<lower_name(label), lower_name(name)>>

RECURSIVE deduplicate(_, _)
\* extraction_agent.py:392-406, with the keys seen so far.
deduplicate(list, seen) ==
    IF list = <<>> THEN <<>>
    ELSE LET key == Key(Head(list).label, Head(list).name)
         IN  IF key \in seen THEN deduplicate(Tail(list), seen)
             ELSE <<Head(list)>> \o deduplicate(Tail(list), seen \cup {key})

\* extraction_agent.py:301-309: the registered entities in insertion order
\* (the list is deduplicated, so no key repeats).
build_registry(list) == SelectSeq(list, LAMBDA e : e.label # "" /\ e.name # "")

InRegistry(registry, label, name) ==
    \E k \in DOMAIN registry : Key(registry[k].label, registry[k].name) = Key(label, name)

\* extraction_agent.py:311-325 with threshold 0.8: the name of the first
\* entity of that label with the highest score, or "" (None).
fuzzy_match(registry, target_label, target_name) ==
    LET candidates ==
            {k \in DOMAIN registry :
                /\ lower_name(registry[k].label) = lower_name(target_label)
                /\ Ratio(lower_name(registry[k].name), lower_name(target_name)) >= 800}
        score(k) == Ratio(lower_name(registry[k].name), lower_name(target_name))
    IN  IF candidates = {} THEN ""
        ELSE registry[CHOOSE k \in candidates :
                         \A other \in candidates :
                             \/ score(k) > score(other)
                             \/ score(k) = score(other) /\ k <= other].name

\* extraction_agent.py:366-386: the name an endpoint has after resolution,
\* or "" when the relationship is an orphan.
ResolvedName(registry, label, name) ==
    IF InRegistry(registry, label, name) THEN name
    ELSE fuzzy_match(registry, label, name)

RECURSIVE resolve_relationships(_, _)
\* extraction_agent.py:356-390.
resolve_relationships(registry, list) ==
    IF list = <<>> THEN <<>>
    ELSE LET rel       == Head(list)
             from_name == ResolvedName(registry, rel.from_label, rel.from_name)
             to_name   == ResolvedName(registry, rel.to_label, rel.to_name)
         IN  IF from_name = "" \/ to_name = ""
             THEN resolve_relationships(registry, Tail(list))
             ELSE <<[rel EXCEPT !.from_name = from_name, !.to_name = to_name]>>
                  \o resolve_relationships(registry, Tail(list))

\* extraction_agent.py:448, 453: the schema's spelling of a label, or the
\* label as it is.
valid_label(labels, raw_label) ==
    IF \E l \in labels : lower_name(l) = lower_name(raw_label)
    THEN CHOOSE l \in labels : lower_name(l) = lower_name(raw_label)
    ELSE raw_label

NodeStatement(label, name) ==
    [kind |-> "node", label |-> label, name |-> name, to_label |-> "", to_name |-> ""]

RelationshipStatement(from_label, from_name, to_label, to_name) ==
    [kind |-> "relationship", label |-> from_label, name |-> from_name,
     to_label |-> to_label, to_name |-> to_name]

\* extraction_agent.py:439-498.
generate_cypher_statements(list, rels, labels) ==
    LET named  == SelectSeq(list, LAMBDA e : e.name # "")
        usable == SelectSeq(rels, LAMBDA r :
                      /\ valid_label(labels, r.from_label) # "" /\ r.from_name # ""
                      /\ r.type # ""
                      /\ valid_label(labels, r.to_label) # "" /\ r.to_name # "")
    IN  [i \in DOMAIN named |-> NodeStatement(valid_label(labels, named[i].label), named[i].name)]
        \o [i \in DOMAIN usable |->
               RelationshipStatement(valid_label(labels, usable[i].from_label), usable[i].from_name,
                                     valid_label(labels, usable[i].to_label), usable[i].to_name)]

\* extraction_agent.py:529-530 with 408-432: GraphLinker.run.
LinkerRun ==
    /\ link_pc = "link"
    /\ LET clean == deduplicate(entities, {})
       IN  /\ entities' = clean
           /\ relationships' = resolve_relationships(build_registry(clean), relationships)
    /\ link_pc' = "generate_cypher"
    /\ UNCHANGED <<schema_labels, cypher_statements>>
    /\ UNCHANGED notLink

\* extraction_agent.py:537.
GenerateCypherStatements ==
    /\ link_pc = "generate_cypher"
    /\ cypher_statements' = generate_cypher_statements(entities, relationships, schema_labels)
    /\ link_pc' = "done"
    /\ UNCHANGED <<schema_labels, entities, relationships>>
    /\ UNCHANGED notLink

LinkInit ==
    /\ link_pc = "link"
    /\ schema_labels \in Schemas
    /\ entities \in UNION {[1..n -> RawEntities] : n \in 0..MaxEntities}
    /\ relationships \in {<<>>} \cup {<<r>> : r \in RawRelationships}
    /\ cypher_statements = <<>>

InitLink ==
    /\ LinkInit
    /\ WorkerIdle /\ IngressInit /\ StoreIdle /\ AuxIdle
    /\ OthersIdle("linking")

NextLink ==
    \/ LinkerRun
    \/ GenerateCypherStatements

SpecLink == InitLink /\ [][NextLink]_vars

\* The graph store matches (a:Label {name: "..."}) against a node by exact,
\* case-sensitive equality of label and name.
HasNode(label, name) ==
    \E i \in DOMAIN cypher_statements :
        /\ cypher_statements[i].kind = "node"
        /\ cypher_statements[i].label = label
        /\ cypher_statements[i].name = name

\* C26: for every relationship statement generate_cypher_statements emitted,
\* both endpoint patterns (label and name, compared as the graph store
\* compares them) are the label and name of a node statement of the same
\* batch.
C26_EndpointsAreNodesOfTheBatch ==
    \A i \in DOMAIN cypher_statements :
        cypher_statements[i].kind = "relationship" =>
            /\ HasNode(cypher_statements[i].label, cypher_statements[i].name)
            /\ HasNode(cypher_statements[i].to_label, cypher_statements[i].to_name)

(***************************************************************************)
(* PolicyCompilerPipeline.run                                              *)
(***************************************************************************)
MaxRevisions == 3

\* The keyword parameters each stage agent declares.
Signature(agent) ==
    CASE agent = "run_ontology_agent" -> {}
      [] agent = "run_extraction_agent" -> {"schema"}
      [] agent = "run_critic_agent" -> {"schema", "extraction", "log_callback"}
      [] agent = "run_builder_agent" -> {"extraction", "clear_existing", "log_callback"}

\* Python raises TypeError for a keyword argument the function does not declare.
RaisesTypeError(agent, keywords) == keywords \ Signature(agent) # {}

\* The messages run logs before it calls the first stage agent.
OpeningMessages ==
    <<"====", "[PIPELINE] POLICY COMPILER PIPELINE - Starting", "====",
      "[STAGE 1/4] Ontology Design", "Using Gemini Thinking Mode for schema generation">>

Results(status, error) == [pipeline_status |-> status, error |-> error]

\* agent.py:59-71: one self._log call.
LogOpening ==
    /\ pipe_pc = "opening"
    /\ log' = Append(log, OpeningMessages[Len(log) + 1])
    /\ pipe_pc' = IF Len(log') = Len(OpeningMessages) THEN "ontology" ELSE "opening"
    /\ UNCHANGED <<max_revision_attempts, clear_existing_graph, log_callback, stage_log,
                   pipeline_results>>
    /\ UNCHANGED notPipe

\* agent.py:72 with ontology_agent.py:265: the call passes log_callback to a
\* function that declares no parameter; the TypeError is caught at line 163.
CallOntologyAgent ==
    /\ pipe_pc = "ontology"
    /\ RaisesTypeError("run_ontology_agent", {"log_callback"})
    /\ pipe_pc' = "except"
    /\ UNCHANGED <<max_revision_attempts, clear_existing_graph, log_callback, log, stage_log,
                   pipeline_results>>
    /\ UNCHANGED notPipe

\* agent.py:163-170: _fail_pipeline marks the results and logs the failure.
FailPipeline ==
    /\ pipe_pc = "except"
    /\ pipeline_results' = Results("failed", "TypeError")
    /\ log' = Append(log, "[PIPELINE] FAILED")
    /\ pipe_pc' = "save_artifact"
    /\ UNCHANGED <<max_revision_attempts, clear_existing_graph, log_callback, stage_log>>
    /\ UNCHANGED notPipe

\* agent.py:171-172 with tools.py:44-71: the results are saved and returned,
\* or writing the file raises.
SaveResults ==
    /\ pipe_pc = "save_artifact"
    /\ pipe_pc' \in {"returned", "raised"}
    /\ UNCHANGED <<max_revision_attempts, clear_existing_graph, log_callback, log, stage_log,
                   pipeline_results>>
    /\ UNCHANGED notPipe

PipeInit ==
    /\ pipe_pc = "opening"
    /\ max_revision_attempts \in 0..MaxRevisions
    /\ clear_existing_graph \in BOOLEAN
    /\ log_callback \in {None, "pipeline_logger"}
    /\ log = <<>>
    /\ stage_log = <<>>
    /\ pipeline_results = Results("running", None)

InitPipe ==
    /\ PipeInit
    /\ WorkerIdle /\ IngressInit /\ StoreIdle /\ AuxIdle
    /\ OthersIdle("pipeline")

NextPipe ==
    \/ LogOpening
    \/ CallOntologyAgent
    \/ FailPipeline
    \/ SaveResults

SpecPipe == InitPipe /\ [][NextPipe]_vars

\* How often a stage started.
Started(stage) == Cardinality({i \in DOMAIN stage_log : stage_log[i] = stage})

\* C27: run executes the stages in the order ontology, extraction, critic,
\* builder: a run that has returned started with the one ontology run; the
\* critic ran at most 3 times and extraction at most 1 + 2 times; the builder
\* is the last stage, directly after a critic run, and only after ontology
\* and extraction ran.
C27_StagesRunInOrder ==
    /\ pipe_pc = "returned" => (stage_log # <<>> /\ stage_log[1] = "ontology")
    /\ Started("ontology") <= 1
    /\ Started("critic") <= 3
    /\ Started("extraction") <= 3
    /\ \A i \in DOMAIN stage_log :
          /\ stage_log[i] = "extraction" => i > 1
          /\ stage_log[i] = "critic" => (i > 2 /\ stage_log[2] = "extraction")
          /\ stage_log[i] = "builder" => (i = Len(stage_log) /\ i > 1 /\ stage_log[i - 1] = "critic")

\* C38: the driver's own calls to the stage entry points never make a run
\* fail: a run is marked failed only after a stage agent was entered, and its
\* error is never the TypeError of a call.
C38_DriverCallsNeverFail ==
    pipeline_results.pipeline_status = "failed" =>
        /\ stage_log # <<>>
        /\ pipeline_results.error # "TypeError"

(***************************************************************************)
(* build_graph: the connection test and the retry decorator                *)
(***************************************************************************)
MaxFailures == 5

MAX_RETRIES == 3
INITIAL_RETRY_DELAY == 1
MAX_RETRY_DELAY == 10

\* db.py:94: min(delay * 2, MAX_RETRY_DELAY).
NextDelay(d) == IF d * 2 < MAX_RETRY_DELAY THEN d * 2 ELSE MAX_RETRY_DELAY

\* db.py:77-81: the wrapper starts: no exception yet, the initial delay, attempt 0.
EnterWrapper(f) ==
    /\ retried_func' = f
    /\ conn_attempt' = 0
    /\ conn_delay' = INITIAL_RETRY_DELAY

\* builder_agent.py:215-219: build_graph awaits test_connection().
BuildGraph ==
    /\ conn_pc = "start"
    /\ EnterWrapper("test_connection")
    /\ conn_pc' = "call"
    /\ UNCHANGED <<driver, sleeps, failures_left, conn_test, clear_existing, build_result>>
    /\ UNCHANGED notConn

\* db.py:184-202: the body of test_connection: every exception of the driver
\* is caught inside and becomes a returned status "error".
TestConnection ==
    /\ conn_pc = "call"
    /\ retried_func = "test_connection"
    /\ driver' = "open"
    /\ \/ /\ failures_left > 0
          /\ failures_left' = failures_left - 1
          /\ conn_test' = [status |-> "error"]
       \/ /\ conn_test' = [status |-> "connected"]
          /\ UNCHANGED failures_left
    /\ conn_pc' = "returned"
    /\ UNCHANGED <<retried_func, conn_attempt, conn_delay, sleeps, clear_existing, build_result>>
    /\ UNCHANGED notConn

\* builder_agent.py:220-225: anything but "connected" aborts the build.
CheckConnection ==
    /\ conn_pc = "returned"
    /\ retried_func = "test_connection"
    /\ IF conn_test.status # "connected"
       THEN /\ build_result' = "Neo4j connection failed"
            /\ conn_pc' = "done"
            /\ UNCHANGED <<retried_func, conn_attempt, conn_delay>>
       ELSE IF clear_existing
       THEN \* builder_agent.py:250-252, 89: the first execute_write
            /\ EnterWrapper("execute_write")
            /\ conn_pc' = "call"
            /\ build_result' = "connected"
       ELSE /\ build_result' = "connected"
            /\ conn_pc' = "done"
            /\ UNCHANGED <<retried_func, conn_attempt, conn_delay>>
    /\ UNCHANGED <<driver, sleeps, failures_left, conn_test, clear_existing>>
    /\ UNCHANGED notConn

\* db.py:162-172: the body of execute_write: a connection failure raises
\* ServiceUnavailable out of the function.
ExecuteWrite ==
    /\ conn_pc = "call"
    /\ retried_func = "execute_write"
    /\ driver' = "open"
    /\ \/ /\ failures_left > 0
          /\ failures_left' = failures_left - 1
          /\ conn_pc' = "caught"
       \/ /\ conn_pc' = "returned"
          /\ UNCHANGED failures_left
    /\ UNCHANGED <<retried_func, conn_attempt, conn_delay, sleeps, conn_test, clear_existing,
                   build_result>>
    /\ UNCHANGED notConn

\* db.py:84-94: a connection exception before the last attempt: the driver
\* is reset, the wrapper sleeps and doubles the delay, the function is called again.
RetryAfterReset ==
    /\ conn_pc = "caught"
    /\ conn_attempt < MAX_RETRIES
    /\ driver' = None
    /\ sleeps' = Append(sleeps, conn_delay)
    /\ conn_delay' = NextDelay(conn_delay)
    /\ conn_attempt' = conn_attempt + 1
    /\ conn_pc' = "call"
    /\ UNCHANGED <<retried_func, failures_left, conn_test, clear_existing, build_result>>
    /\ UNCHANGED notConn

\* db.py:95-97 with builder_agent.py:93-94: the last attempt failed: the
\* wrapper re-raises and clear_existing_graph returns an error status.
AllAttemptsFailed ==
    /\ conn_pc = "caught"
    /\ conn_attempt = MAX_RETRIES
    /\ build_result' = "clear failed"
    /\ conn_pc' = "done"
    /\ UNCHANGED <<retried_func, conn_attempt, conn_delay, driver, sleeps, failures_left,
                   conn_test, clear_existing>>
    /\ UNCHANGED notConn

\* builder_agent.py:89-91: the first execute_write returned.
WriteReturned ==
    /\ conn_pc = "returned"
    /\ retried_func = "execute_write"
    /\ build_result' = "cleared"
    /\ conn_pc' = "done"
    /\ UNCHANGED <<retried_func, conn_attempt, conn_delay, driver, sleeps, failures_left,
                   conn_test, clear_existing>>
    /\ UNCHANGED notConn

ConnInit ==
    /\ conn_pc = "start"
    /\ retried_func = None
    /\ conn_attempt = 0
    /\ conn_delay = 0
    /\ driver \in {None, "open"}
    /\ sleeps = <<>>
    /\ failures_left \in 0..MaxFailures
    /\ conn_test = [status |-> None]
    /\ clear_existing \in BOOLEAN
    /\ build_result = None

InitConn ==
    /\ ConnInit
    /\ WorkerIdle /\ IngressInit /\ StoreIdle /\ AuxIdle
    /\ OthersIdle("connection")

NextConn ==
    \/ BuildGraph
    \/ TestConnection
    \/ CheckConnection
    \/ ExecuteWrite
    \/ RetryAfterReset
    \/ AllAttemptsFailed
    \/ WriteReturned

SpecConn == InitConn /\ [][NextConn]_vars

\* C28: the build is aborted with a connection error only after the
\* connection test was retried: all MAX_RETRIES + 1 attempts were made, the
\* three sleeps were 1, 2 and 4 seconds, and the driver was reset before each
\* retry.
C28_AbortOnlyAfterRetries ==
    build_result = "Neo4j connection failed" =>
        /\ conn_attempt = MAX_RETRIES
        /\ sleeps = <<1, 2, 4>>

(***************************************************************************)
(* process_single_email and process_demo_scenario on the same envelope     *)
(* and the same responses of the tool servers, the LLM and the database.   *)
(***************************************************************************)
\* The methods class Adjudicator defines (adjudicator_agent.py:84-669).
AdjudicatorMethods ==
    {"generate_with_retry", "initialize", "normalize_condition", "_fuzzy_match_category",
     "map_category", "generate_policy_query", "execute_policy_query", "make_decision",
     "build_context", "_generate_reasoning_trace", "adjudicate"}

\* What the two entry points are given: the envelope (category, attachment),
\* whether doc_server is connected, whether the attachment tool call returns,
\* the result of the verification loop, what the Adjudicator's run returns
\* (or "raises"), and whether the INSERT commits.
CaseInputs ==
    [category : Categories,
     doc_server : BOOLEAN,
     attachment : {"none", "pdf", "image"},
     tool_ok : BOOLEAN,
     returned : BOOLEAN,
     verified_data : VerifiedData,
     fuzzy : BOOLEAN,
     adjudicator : Decisions \cup {"raises"},
     insert_ok : BOOLEAN]

NoWrite == [written |-> "no", verification_status |-> None, adjudication |-> None]

PendingWrite == [written |-> "pending", verification_status |-> None, adjudication |-> None]

\* processor.py:136-229: the row insert_refund_case commits, or nothing when
\* the statement raises.
RowWrite(i, record, adjudication) ==
    IF i.insert_ok
    THEN [written |-> "yes", verification_status |-> VerificationStatus(record),
          adjudication |-> adjudication]
    ELSE NoWrite

\* processor.py:727-729, 939-941.
RecordOf(i) == IF i.returned THEN i.verified_data ELSE None

\* processor.py:652-786.
process_single_email(i) ==
    IF i.category \notin AcceptedCategories THEN NoWrite
    ELSE IF ~i.doc_server THEN NoWrite
    ELSE IF i.attachment # "none" /\ ~i.tool_ok THEN NoWrite     \* call_tool raises
    ELSE IF ~Truthy(RecordOf(i)) THEN RowWrite(i, None, None)
    ELSE IF ~IsDict(RecordOf(i)) THEN NoWrite                    \* item assignment raises
    ELSE IF i.fuzzy THEN RowWrite(i, RecordOf(i), None)
    ELSE RowWrite(i, RecordOf(i),
                  IF i.adjudicator = "raises" THEN None ELSE i.adjudicator)

\* processor.py:790-1061. The attachment tool calls are wrapped in try/except;
\* the adjudication block calls Adjudicator.adjudicate_streaming inside the
\* try whose except clause ends the function without an insert.
process_demo_scenario(i) ==
    IF i.category \notin AcceptedCategories THEN NoWrite
    ELSE IF ~i.doc_server THEN NoWrite
    ELSE IF ~Truthy(RecordOf(i)) THEN RowWrite(i, None, None)
    ELSE IF ~IsDict(RecordOf(i)) THEN NoWrite                    \* verified_record.get raises
    ELSE IF i.fuzzy THEN RowWrite(i, RecordOf(i), None)
    ELSE IF "adjudicate_streaming" \notin AdjudicatorMethods \/ i.adjudicator = "raises"
         THEN NoWrite
    ELSE RowWrite(i, RecordOf(i), i.adjudicator)

RunSingleEmail ==
    /\ single_write = PendingWrite
    /\ single_write' = process_single_email(case_input)
    /\ UNCHANGED <<case_input, demo_write>>
    /\ UNCHANGED notEquiv

RunDemoScenario ==
    /\ demo_write = PendingWrite
    /\ demo_write' = process_demo_scenario(case_input)
    /\ UNCHANGED <<case_input, single_write>>
    /\ UNCHANGED notEquiv

EquivInit ==
    /\ case_input \in CaseInputs
    /\ single_write = PendingWrite
    /\ demo_write = PendingWrite

InitEquiv ==
    /\ EquivInit
    /\ WorkerIdle /\ IngressInit /\ StoreIdle /\ AuxIdle
    /\ OthersIdle("equivalence")

NextEquiv ==
    \/ RunSingleEmail
    \/ RunDemoScenario

SpecEquiv == InitEquiv /\ [][NextEquiv]_vars

\* C31: for the same envelope and the same responses, process_demo_scenario
\* performs the same refund_cases write as process_single_email: a row is
\* written by one exactly when it is written by the other, with the same
\* verification_status and the same adjudication result.
C31_DemoWritesWhatSingleWrites ==
    (single_write # PendingWrite /\ demo_write # PendingWrite) =>
        single_write = demo_write

(***************************************************************************)
(* Ingestion and the citation round trip: parse_documents (ingestion.py),  *)
(* CitationManager.find_text_citation (tools.py) and get_source_text       *)
(* (source_retrieval.py).                                                  *)
(***************************************************************************)
MaxPages == 2
MaxPageLines == 2
MaxContext == 1

\* source_retrieval.py:69: context_lines: int = 5.
DEFAULT_CONTEXT_LINES == 5

\* The lines a page can hold: "ab ab" and "A baba".
LineTexts == {<<"a", "b", " ", "a", "b">>, <<"A", " ", "b", "a", "b", "a">>}

\* doc.text.split("\n") of a parsed page.
PageTexts == UNION {[1..n -> LineTexts] : n \in 1..MaxPageLines}

\* The PDF directory: one file of up to MaxPages pages, and possibly a
\* second file of one page (sorted by name).
DocumentSets ==
    LET first == [filename : {<<"Bestbuytnc1", ".pdf">>},
                  page_texts : UNION {[1..n -> PageTexts] : n \in 1..MaxPages}]
        second == [filename : {<<"Returns", ".pdf">>}, page_texts : [1..1 -> PageTexts]]
    IN  {<<f>> : f \in first} \cup {<<f, g>> : f \in first, g \in second}

\* ingestion.py:86-94: the seven header lines (the fifth and the seventh are empty).
header_lines == [i \in 1..7 |-> IF i \in {5, 7} THEN <<>> ELSE <<"#">>]

\* ingestion.py:111: the marker line of a page.
page_marker == <<"<!--">>

RECURSIVE PagesOf(_, _)
\* ingestion.py:99-105: the pages in the order of the two loops.
PagesOf(docs, k) ==
    IF docs = <<>> THEN <<>>
    ELSE IF k > Len(Head(docs).page_texts) THEN PagesOf(Tail(docs), 1)
    ELSE <<[filename |-> Head(docs).filename, page_num |-> k,
            page_lines |-> Head(docs).page_texts[k]]>> \o PagesOf(docs, k + 1)

\* ingestion.py:81-96.
WriteHeader ==
    /\ doc_pc = "header"
    /\ combined_lines' = header_lines
    /\ line_kind' = [i \in 1..Len(header_lines) |-> 0]
    /\ current_line' = 1 + Len(header_lines)
    /\ index_pages' = <<>>
    /\ doc_pc' = "parse"
    /\ UNCHANGED <<documents, text_excerpt, context_lines, cited, source_window>>
    /\ UNCHANGED notDocs

\* ingestion.py:105-129: one page: start_line is the value of current_line
\* before the marker is appended.
ParsePage ==
    /\ doc_pc = "parse"
    /\ Len(index_pages) < Len(PagesOf(documents, 1))
    /\ LET doc        == PagesOf(documents, 1)[Len(index_pages) + 1]
           start_line == current_line
           end_line   == current_line + Len(doc.page_lines) - 1
       IN  /\ combined_lines' = combined_lines \o <<page_marker>> \o doc.page_lines \o <<<<>>>>
           /\ line_kind' = line_kind \o <<-1>>
                             \o [i \in 1..Len(doc.page_lines) |-> Len(index_pages) + 1]
                             \o <<-2>>
           /\ current_line' = current_line + 1 + Len(doc.page_lines) + 1
           /\ index_pages' = Append(index_pages,
                                    Page(doc.filename, doc.page_num, start_line, end_line))
    /\ UNCHANGED <<doc_pc, documents, text_excerpt, context_lines, cited, source_window>>
    /\ UNCHANGED notDocs

\* ingestion.py:133-141: the markdown and the index are written.
WriteFiles ==
    /\ doc_pc = "parse"
    /\ Len(index_pages) = Len(PagesOf(documents, 1))
    /\ doc_pc' = "written"
    /\ UNCHANGED <<documents, combined_lines, line_kind, index_pages, current_line,
                   text_excerpt, context_lines, cited, source_window>>
    /\ UNCHANGED notDocs

\* tools.py:171-174, 191-232: CitationManager reads the two files and cites
\* the excerpt.
FindTextCitation ==
    /\ doc_pc = "written"
    /\ cited' = find_text_citation(combined_lines, index_pages,
                                   [present |-> TRUE, text |-> text_excerpt])
    /\ doc_pc' = "cited"
    /\ UNCHANGED <<documents, combined_lines, line_kind, index_pages, current_line,
                   text_excerpt, context_lines, source_window>>
    /\ UNCHANGED notDocs

\* source_retrieval.py:36-44: the groups of a citation that matches.
ParsedCitation(c) ==
    LET i == CHOOSE k \in DOMAIN c : c[k] = ":page"
        j == CHOOSE k \in DOMAIN c : c[k] = ":line"
    IN  [filename |-> SubSeq(c, 1, i - 1),
         page     |-> Numeral(SubSeq(c, i + 1, j - 1)),
         line     |-> Numeral(SubSeq(c, j + 1, Len(c)))]

NoWindow == [found |-> FALSE, target |-> 0, first |-> 0, last |-> 0]

\* source_retrieval.py:59-66: f.readlines() of the file written by
\* "\n".join(combined_lines): the empty last element is no line of the file.
readlines(all_lines) ==
    IF all_lines # <<>> /\ all_lines[Len(all_lines)] = <<>>
    THEN SubSeq(all_lines, 1, Len(all_lines) - 1) ELSE all_lines

\* source_retrieval.py:94-135 for one citation: the window lines[start:end]
\* (lines first..last, counted from 1) around target_line.
get_source_text(file_lines, index, c, n_context) ==
    IF file_lines = <<>> \/ ~parse_citation(c) THEN NoWindow
    ELSE LET parsed == ParsedCitation(c)
             hits   == {k \in DOMAIN index : /\ index[k].page = parsed.page
                                             /\ index[k].filename = parsed.filename}
             line   == IF hits # {}
                       THEN index[CHOOSE k \in hits : \A o \in hits : k <= o].start_line
                                + (parsed.line - 1)
                       ELSE parsed.line
             target == Max(1, IF line < Len(file_lines) THEN line ELSE Len(file_lines))
             start  == Max(0, target - n_context - 1)
             end    == IF Len(file_lines) < target + n_context THEN Len(file_lines)
                       ELSE target + n_context
         IN  IF \A k \in (start + 1)..end : strip(file_lines[k]) = <<>>
             THEN NoWindow
             ELSE [found |-> TRUE, target |-> target, first |-> start + 1, last |-> end]

\* source_retrieval.py:69-137.
GetSourceText ==
    /\ doc_pc = "cited"
    /\ source_window' = get_source_text(readlines(combined_lines), index_pages, cited,
                                        context_lines)
    /\ doc_pc' = "retrieved"
    /\ UNCHANGED <<documents, combined_lines, line_kind, index_pages, current_line,
                   text_excerpt, context_lines, cited>>
    /\ UNCHANGED notDocs

DocsInit ==
    /\ doc_pc = "header"
    /\ documents \in DocumentSets
    /\ combined_lines = <<>>
    /\ line_kind = <<>>
    /\ index_pages = <<>>
    /\ current_line = 1
    /\ text_excerpt \in LineTexts
    /\ context_lines \in 0..MaxContext \cup {DEFAULT_CONTEXT_LINES}
    /\ cited = <<>>
    /\ source_window = NoWindow

InitDocs ==
    /\ DocsInit
    /\ WorkerIdle /\ IngressInit /\ StoreIdle /\ AuxIdle
    /\ OthersIdle("documents")

NextDocs ==
    \/ WriteHeader
    \/ ParsePage
    \/ WriteFiles
    \/ FindTextCitation
    \/ GetSourceText

SpecDocs == InitDocs /\ [][NextDocs]_vars

\* C35: a citation <file>:page<N>:line<M> that find_text_citation produced
\* for a text found in line M is resolved by get_source_text, called with its
\* default context_lines, to a window that contains line M.
C35_CitationRoundTrip ==
    (doc_pc = "retrieved" /\ parse_citation(cited)
                          /\ context_lines = DEFAULT_CONTEXT_LINES) =>
        LET M == ParsedCitation(cited).line IN
        /\ source_window.found
        /\ source_window.first <= M /\ M <= source_window.last

\* C36: in the combined markdown the range start_line..end_line of each index
\* entry covers exactly the lines that hold that page's content: a line is in
\* the range of entry k exactly when it is a content line of page k, so no
\* marker line is in a range and the ranges of different pages are disjoint.
C36_RangeCoversPageContent ==
    doc_pc \in {"written", "cited", "retrieved"} =>
        \A k \in DOMAIN index_pages : \A i \in DOMAIN combined_lines :
            (index_pages[k].start_line <= i /\ i <= index_pages[k].end_line)
                <=> line_kind[i] = k

(***************************************************************************)
(* run_builder_agent and the builder stage of PolicyCompilerPipeline.run   *)
(* (builder_agent.py:197-334, agent.py:129-161).                           *)
(***************************************************************************)
MaxStatements == 2
MaxNodes == 2

\* What the database does during one build: whether the connection test
\* succeeds, how many Cypher statements the extraction holds and how many of
\* them fail, how many nodes verify_graph counts, and whether a call raises
\* out of build_graph.
BuildInputs ==
    {i \in [connected : BOOLEAN, statements : 0..MaxStatements, failed : 0..MaxStatements,
            total_nodes : 0..MaxNodes, raises : BOOLEAN] : i.failed <= i.statements}

NoBuildLog == [status |-> "none"]

\* builder_agent.py:217-285: the status of the build log.
build_graph(i) ==
    IF ~i.connected THEN [status |-> "error"]
    ELSE IF i.statements = 0 THEN [status |-> "error"]
    ELSE IF i.failed = 0 /\ i.total_nodes > 0 THEN [status |-> "success"]
    ELSE IF i.statements - i.failed > 0 /\ i.total_nodes > 0
    THEN [status |-> "partial_success"]
    ELSE [status |-> "failed"]

\* builder_agent.py:306-311: run_builder_agent awaits build_graph.
BuildTheGraph ==
    /\ builder_pc = "start"
    /\ IF build_input.raises
       THEN /\ builder_pc' = "raised"
            /\ UNCHANGED build_log
       ELSE /\ build_log' = build_graph(build_input)
            /\ builder_pc' = "built"
    /\ UNCHANGED <<build_input, builder_result, stage4_status>>
    /\ UNCHANGED notBuild

\* builder_agent.py:313-327: whatever the status of the build log, the agent
\* returns status "success" with the log as build_result.
ReturnBuildResult ==
    /\ builder_pc = "built"
    /\ builder_result' = [status |-> "success", build_result |-> build_log]
    /\ builder_pc' = "returned"
    /\ UNCHANGED <<build_input, build_log, stage4_status>>
    /\ UNCHANGED notBuild

\* builder_agent.py:329-331: an exception becomes status "error".
ReturnBuildError ==
    /\ builder_pc = "raised"
    /\ builder_result' = [status |-> "error", build_result |-> NoBuildLog]
    /\ builder_pc' = "returned"
    /\ UNCHANGED <<build_input, build_log, stage4_status>>
    /\ UNCHANGED notBuild

\* agent.py:138-161: run looks at the status of the agent's result only.
CheckBuilderResult ==
    /\ builder_pc = "returned"
    /\ stage4_status' = IF builder_result.status # "success" THEN "failed" ELSE "success"
    /\ builder_pc' = "done"
    /\ UNCHANGED <<build_input, build_log, builder_result>>
    /\ UNCHANGED notBuild

BuildInit ==
    /\ builder_pc = "start"
    /\ build_input \in BuildInputs
    /\ build_log = NoBuildLog
    /\ builder_result = [status |-> "none", build_result |-> NoBuildLog]
    /\ stage4_status = "running"

InitBuild ==
    /\ BuildInit
    /\ WorkerIdle /\ IngressInit /\ StoreIdle /\ AuxIdle
    /\ OthersIdle("builder")

NextBuild ==
    \/ BuildTheGraph
    \/ ReturnBuildResult
    \/ ReturnBuildError
    \/ CheckBuilderResult

SpecBuild == InitBuild /\ [][NextBuild]_vars

NumJobs == 2
MaxFiles == 2

JobIds == 1..NumJobs

\* compiler_service.py:24: the statuses of a job, in their order.
StatusOrder == <<"created", "processing_upload", "ingestion", "compiling", "completed">>

Rank(s) == CHOOSE r \in DOMAIN StatusOrder : StatusOrder[r] = s

\* compiler_service.py:102-113: the progress pipeline_logger sets for a message.
pipeline_logger(progress, message) ==
    CASE message = "[STAGE 1/4] Ontology Design" -> 35
      [] message = "[STAGE 2/4] Policy Extraction" -> 50
      [] message = "[STAGE 3/4] Validation" -> 70
      [] message = "[STAGE 4/4] Graph Construction" -> 85
      [] message = "[PIPELINE] COMPLETE" -> 95
      [] OTHER -> progress

RECURSIVE LogAll(_, _)
\* The progress after pipeline_logger received the messages in order.
LogAll(progress, logged) ==
    IF logged = <<>> THEN progress
    ELSE LogAll(pipeline_logger(progress, Head(logged)), Tail(logged))

\* A job's own fields change to these values; nothing else of it changes.
JobMoves(j, at, status, progress) ==
    /\ job_pc' = [job_pc EXCEPT ![j] = at]
    /\ job_status' = [job_status EXCEPT ![j] = status]
    /\ job_progress' = [job_progress EXCEPT ![j] = progress]

\* The task of job j runs: no other task is between two of its awaits.
Runs(j) == loop_owner \in {0, j}

\* compiler_service.py:48-57: the job is stored and its task is scheduled.
create_compilation_job(j) ==
    /\ loop_owner = 0
    /\ job_pc[j] = "none"
    /\ JobMoves(j, "scheduled", "created", 0)
    /\ \E n \in 0..MaxFiles : job_files' = [job_files EXCEPT ![j] = n]
    /\ overlapped' = (overlapped \/ \E k \in JobIds : job_pc[k] \notin {"none", "done"})
    /\ UNCHANGED <<job_parsed, loop_owner, combined_md, results_artifact>>
    /\ UNCHANGED notJobs

\* compiler_service.py:59-67.
BeginUpload(j) ==
    /\ Runs(j)
    /\ job_pc[j] = "scheduled"
    /\ JobMoves(j, "upload", "processing_upload", 5)
    /\ loop_owner' = j
    /\ UNCHANGED <<job_files, job_parsed, combined_md, results_artifact, overlapped>>
    /\ UNCHANGED notJobs

\* compiler_service.py:69-77: the files are copied into the job's own
\* directory policy_pdfs/<job_id>, or a copy raises.
SaveUploads(j) ==
    /\ Runs(j)
    /\ job_pc[j] = "upload"
    /\ \E at \in {"ingest", "except"} : JobMoves(j, at, job_status[j], job_progress[j])
    /\ UNCHANGED <<job_files, job_parsed, loop_owner, combined_md, results_artifact,
                   overlapped>>
    /\ UNCHANGED notJobs

\* compiler_service.py:80-88 with ingestion.py:62-69: without a PDF file
\* parse_documents returns an error, which line 88 raises; otherwise it
\* awaits the parser for the first file.
BeginIngestion(j) ==
    /\ Runs(j)
    /\ job_pc[j] = "ingest"
    /\ JobMoves(j, IF job_files[j] = 0 THEN "except" ELSE "parsing", "ingestion", 10)
    /\ loop_owner' = IF job_files[j] = 0 THEN j ELSE 0
    /\ UNCHANGED <<job_files, job_parsed, combined_md, results_artifact, overlapped>>
    /\ UNCHANGED notJobs

\* ingestion.py:99-129, 131-141, 153-154: the parser returns for one file, or
\* raises (parse_documents returns an error, raised at compiler_service.py:88).
\* After the last file the combined markdown and the index are written to
\* the fixed path policy_docs/combined_policy.md.
ParserReturns(j) ==
    /\ loop_owner = 0
    /\ job_pc[j] = "parsing"
    /\ \/ /\ JobMoves(j, "except", job_status[j], job_progress[j])
          /\ loop_owner' = j
          /\ UNCHANGED <<job_parsed, combined_md>>
       \/ /\ job_parsed' = [job_parsed EXCEPT ![j] = @ + 1]
          /\ IF job_parsed[j] + 1 = job_files[j]
             THEN /\ combined_md' = j
                  /\ JobMoves(j, "ingested", job_status[j], job_progress[j])
                  /\ loop_owner' = j
             ELSE /\ UNCHANGED <<combined_md, job_pc, job_status, job_progress, loop_owner>>
    /\ UNCHANGED <<job_files, results_artifact, overlapped>>
    /\ UNCHANGED notJobs

\* compiler_service.py:90-96: ingestion succeeded.
BeginCompiling(j) ==
    /\ Runs(j)
    /\ job_pc[j] = "ingested"
    /\ JobMoves(j, "pipeline", "compiling", 30)
    /\ UNCHANGED <<job_files, job_parsed, loop_owner, combined_md, results_artifact,
                   overlapped>>
    /\ UNCHANGED notJobs

\* compiler_service.py:115-134 with agent.py:59-72, 163-172: the pipeline
\* logs through pipeline_logger and fails with the TypeError of its first
\* stage call; _fail_pipeline saves pipeline_results (tools.py:44-72, a fixed
\* path), or the save raises; line 122 raises for a status that is not success.
RunPipeline(j) ==
    /\ Runs(j)
    /\ job_pc[j] = "pipeline"
    /\ IF RaisesTypeError("run_ontology_agent", {"log_callback"})
       THEN /\ JobMoves(j, "except", job_status[j],
                        LogAll(job_progress[j], OpeningMessages \o <<"[PIPELINE] FAILED">>))
            /\ results_artifact' \in {results_artifact, j}
            /\ UNCHANGED loop_owner
       ELSE \* lines 124-133: progress and status are set without an await between
            /\ JobMoves(j, "done", "completed", 100)
            /\ results_artifact' = j
            /\ loop_owner' = 0
    /\ UNCHANGED <<job_files, job_parsed, combined_md, overlapped>>
    /\ UNCHANGED notJobs

\* An exception handler that also resets the progress.
HandleException_ResetProgress(j) ==
    /\ Runs(j)
    /\ job_pc[j] = "except"
    /\ JobMoves(j, "done", "failed", 0)
    /\ loop_owner' = 0
    /\ UNCHANGED <<job_files, job_parsed, combined_md, results_artifact, overlapped>>
    /\ UNCHANGED notJobs

\* compiler_service.py:135-139: the exception handler.
HandleException(j) ==
    /\ Runs(j)
    /\ job_pc[j] = "except"
    /\ JobMoves(j, "done", "failed", job_progress[j])
    /\ loop_owner' = 0
    /\ UNCHANGED <<job_files, job_parsed, combined_md, results_artifact, overlapped>>
    /\ UNCHANGED notJobs

JobsInit ==
    /\ job_pc = [j \in JobIds |-> "none"]
    /\ job_status = [j \in JobIds |-> "none"]
    /\ job_progress = [j \in JobIds |-> 0]
    /\ job_files = [j \in JobIds |-> 0]
    /\ job_parsed = [j \in JobIds |-> 0]
    /\ loop_owner = 0
    /\ combined_md = 0
    /\ results_artifact = 0
    /\ overlapped = FALSE

InitJobs ==
    /\ JobsInit
    /\ WorkerIdle /\ IngressInit /\ StoreIdle /\ AuxIdle
    /\ OthersIdle("jobs")

\* The steps of the process_compilation tasks.
TaskStep ==
    \/ \E j \in JobIds : BeginUpload(j)
    \/ \E j \in JobIds : SaveUploads(j)
    \/ \E j \in JobIds : BeginIngestion(j)
    \/ \E j \in JobIds : ParserReturns(j)
    \/ \E j \in JobIds : BeginCompiling(j)
    \/ \E j \in JobIds : RunPipeline(j)
    \/ \E j \in JobIds : HandleException(j)

NextJobs ==
    \/ \E j \in JobIds : create_compilation_job(j)
    \/ TaskStep

SpecJobs == InitJobs /\ [][NextJobs]_vars

\* The event loop runs a task that can run, and an awaited parser call
\* returns or raises.
SpecJobsLive == SpecJobs /\ WF_vars(TaskStep)

\* C39: a job's status only moves forward along created, processing_upload,
\* ingestion, compiling, completed, or from a status that is not terminal to
\* failed; completed and failed are never left; progress never decreases and
\* is 100 exactly when the status is completed; every job that exists
\* eventually is completed or failed.
C39_JobStatusMovesForward ==
    /\ [][\A j \in JobIds :
            /\ job_progress'[j] >= job_progress[j]
            /\ (job_status[j] # "none" /\ job_status'[j] # job_status[j]) =>
                  /\ job_status[j] \notin {"completed", "failed"}
                  /\ \/ job_status'[j] = "failed"
                     \/ /\ job_status'[j] \in {"processing_upload", "ingestion",
                                                "compiling", "completed"}
                        /\ Rank(job_status'[j]) > Rank(job_status[j])]_vars
    /\ [](\A j \in JobIds : job_progress[j] = 100 <=> job_status[j] = "completed")
    /\ \A j \in JobIds :
          (job_status[j] # "none") ~> (job_status[j] \in {"completed", "failed"})

\* A job failed inside the pipeline, after its progress rose to 35.
C39_Witness ==
    \E j \in JobIds : job_status[j] = "failed" /\ job_progress[j] = 35

\* C40: when two jobs run concurrently, the combined markdown (with its
\* index) and the pipeline artifact one job wrote are never overwritten by
\* the other job.
C40_JobsAreIsolated ==
    [][overlapped =>
          /\ (combined_md # 0 => combined_md' = combined_md)
          /\ (results_artifact # 0 => results_artifact' = results_artifact)]_vars

====
